---- MODULE Spec2Model ----
(***************************************************************************)
(* Fleet lifecycle controller of amauo / spot_deployer.                    *)
(*                                                                         *)
(*   Spec      cmd_nuke (spot_deployer/commands/nuke.py): the region-      *)
(*             parallel scan, the double confirmation, the region-parallel *)
(*             termination and the reconciliation of the persisted list.   *)
(*   SpecTerm  terminate_instances_in_region applied to every request and  *)
(*             every response of the cloud API.                            *)
(*   SpecMon   ClusterManager._monitor_deployment_progress_streaming       *)
(*             (src/amauo/manager.py): the polling loop under its ceiling. *)
(***************************************************************************)
EXTENDS Integers, Sequences, FiniteSets, TLC

\* ------------------------------------------------------------------ bounds
\* Number of regions in AWS_REGIONS (the source lists 20).
NumRegions == 2
\* Number of distinct instance ids the cloud can hold.
NumIds == 2
\* Number of region tasks submitted to a pool (the source submits 20).
NumTasks == 11

AWS_REGIONS == 1..NumRegions
Ids == 1..NumIds

\* ThreadPoolExecutor(max_workers=10)
max_workers == 10

NoValue == "None"

VARIABLES
    \* ---- cmd_nuke
    pc,                 \* position of cmd_nuke's main thread
    force,              \* the force parameter
    confirmation,       \* text typed at the first prompt (NoValue: not asked)
    final_confirm,      \* text typed at the second prompt (NoValue: not asked)
    scan_fut,           \* region -> state of its scan future
    scan_api,           \* region -> what describe_instances answered there
    scan_res,           \* region -> outcome of find_spot_instances_in_region
    all_instances,      \* list of {id, region}
    region_errors,      \* list of <<region, message>>
    console,            \* lines printed by the main thread (their kind)
    termination_groups, \* region -> list of ids
    term_fut,           \* region -> state of its termination future
    term_res,           \* region -> outcome of terminate_instances_in_region
    terminated_count,
    failed_count,
    current_instances,  \* what state.load_instances() returned
    saved_instances,    \* what state.save_instances() was given
    loads,              \* number of state.load_instances() calls
    saves,              \* number of state.save_instances() calls
    cloud_calls,        \* <<operation, region>> -> number of cloud API calls
    \* ---- terminate_instances_in_region on its own
    t_pc, t_region, t_ids, t_resp, t_out,
    \* ---- _monitor_deployment_progress_streaming
    m_pc,                 \* position of the monitor
    now,                  \* time.time() - start_time, in seconds
    deployment_cluster,   \* the adopted cluster (NoValue: None)
    completion_detected,
    m_line,               \* the status line this tick acts on (<<>>: none)
    m_queue_cluster,      \* cluster whose queue was polled this tick
    m_rows,               \* queue rows of this tick still to be processed
    m_outcome,            \* how the monitor ended (NoValue: still running)
    observed_terminal,    \* some poll's output held a terminal job status
                          \* or a completion keyword
    terminal_status,      \* `status` when a row last read SUCCEEDED or FAILED
    m_poll_failed,        \* the poll just made returned success = False
    m_log_stdout,         \* log_stdout: the output of the tick's last `sky logs`
    \* ---- _parse_deployment_log_line on its own
    p_pc,                 \* "idle", "called", "returned"
    p_line,               \* the argument
    p_event,              \* the value returned
    \* ---- _monitor_deployment_progress
    f_pc,                 \* "head", "lines", "returned"
    f_file,               \* the lines of the deployment log file
    last_position,        \* lines of the file already read
    new_lines,            \* lines read in this tick, still to be handled
    nodes,                \* node id -> node entry
    received,             \* node id -> every message appended for it, in order
    \* ---- _parse_duration_to_seconds on its own
    u_pc,                 \* "idle", "called", "returned"
    duration,             \* the argument, as its characters
    u_result,             \* [raised, value]: the exception or the value returned
    \* ---- _detect_deployment_completion
    d_pc,                 \* "called", "queue", "returned"
    d_status,             \* what run_sky_cmd("status") returned
    actual_cluster_name,
    d_queue,              \* what run_sky_cmd("queue", ...) returned
    d_log,                \* what run_sky_cmd("logs", ...) returned
    d_log_calls,          \* number of calls of run_sky_cmd("logs", ...)
    d_result,             \* the pair returned, with the duration in its message
    \* ---- run_sky_cmd
    c_pc,                 \* "idle", "called", "exec", "returned"
    c_args,               \* the arguments after `sky`
    c_timeout,            \* the timeout parameter
    c_docker,             \* what docker did in ensure_docker_container
    c_proc,               \* what subprocess.run of `docker exec ... sky` did
    c_out,                \* the triple returned, or the exception raised
    \* ---- ThreadPoolExecutor(max_workers=10) with as_completed
    x_pc,
    x_fut,
    \* ---- check_prerequisites
    q_pc,
    q_first,
    q_second,
    q_restarts,
    q_checks,
    q_log,
    q_return,
    \* ---- monitor_deployments
    e_pc,
    e_follow,
    clusters_found,
    active_cluster,
    e_elapsed,
    e_outcome,
    \* ---- deploy_cluster in follow mode, with its monitor thread
    y_pc,
    y_launches,
    y_fallback,
    y_success,
    y_return,
    k_pc,
    k_cluster,
    k_completion,
    k_elapsed,
    \* ---- cmd_list
    l_pc,
    l_rich,
    l_file,
    l_saves,
    l_instances,
    l_fut,
    l_res,
    l_next,
    l_out

nukeVars == <<pc, force, confirmation, final_confirm, scan_fut, scan_api, scan_res,
              all_instances, region_errors, console, termination_groups,
              term_fut, term_res, terminated_count, failed_count,
              current_instances, saved_instances, loads, saves, cloud_calls>>
termVars == <<t_pc, t_region, t_ids, t_resp, t_out>>
monVars == <<m_pc, now, deployment_cluster, completion_detected, m_line,
             m_queue_cluster, m_rows, m_outcome, observed_terminal,
             terminal_status, m_poll_failed, m_log_stdout>>
parseVars == <<p_pc, p_line, p_event>>
fileVars == <<f_pc, f_file, last_position, new_lines, nodes, received>>
durVars == <<u_pc, duration, u_result>>
detVars == <<d_pc, d_status, actual_cluster_name, d_queue, d_log, d_log_calls,
             d_result>>
cmdVars == <<c_pc, c_args, c_timeout, c_docker, c_proc, c_out>>
poolVars == <<x_pc, x_fut>>
prereqVars == <<q_pc, q_first, q_second, q_restarts, q_checks, q_log, q_return>>
followVars == <<e_pc, e_follow, clusters_found, active_cluster, e_elapsed, e_outcome>>
deployVars == <<y_pc, y_launches, y_fallback, y_success, y_return, k_pc, k_cluster, k_completion, k_elapsed>>
listVars == <<l_pc, l_rich, l_file, l_saves, l_instances, l_fut, l_res, l_next, l_out>>
vars == <<nukeVars, termVars, monVars, parseVars, fileVars, durVars, detVars, cmdVars,
                 poolVars, prereqVars, followVars, deployVars, listVars>>
outsideNuke == <<termVars, monVars, parseVars, fileVars, durVars, detVars, cmdVars,
                 poolVars, prereqVars, followVars, deployVars, listVars>>
outsideTerm == <<nukeVars, monVars, parseVars, fileVars, durVars, detVars, cmdVars,
                 poolVars, prereqVars, followVars, deployVars, listVars>>
outsideMon == <<nukeVars, termVars, parseVars, fileVars, durVars, detVars, cmdVars,
                 poolVars, prereqVars, followVars, deployVars, listVars>>
outsideParse == <<nukeVars, termVars, monVars, fileVars, durVars, detVars, cmdVars,
                 poolVars, prereqVars, followVars, deployVars, listVars>>
outsideFile == <<nukeVars, termVars, monVars, parseVars, durVars, detVars, cmdVars,
                 poolVars, prereqVars, followVars, deployVars, listVars>>
outsideDur == <<nukeVars, termVars, monVars, parseVars, fileVars, detVars, cmdVars,
                 poolVars, prereqVars, followVars, deployVars, listVars>>
outsideDet == <<nukeVars, termVars, monVars, parseVars, fileVars, durVars, cmdVars,
                 poolVars, prereqVars, followVars, deployVars, listVars>>
outsideCmd == <<nukeVars, termVars, monVars, parseVars, fileVars, durVars, detVars,
                 poolVars, prereqVars, followVars, deployVars, listVars>>
outsidePool == <<nukeVars, termVars, monVars, parseVars, fileVars, durVars, detVars, cmdVars,
                 prereqVars, followVars, deployVars, listVars>>
outsidePrereq == <<nukeVars, termVars, monVars, parseVars, fileVars, durVars, detVars, cmdVars, poolVars, followVars, deployVars, listVars>>
outsideFollow == <<nukeVars, termVars, monVars, parseVars, fileVars, durVars, detVars, cmdVars, poolVars, prereqVars, deployVars, listVars>>
outsideDeploy == <<nukeVars, termVars, monVars, parseVars, fileVars, durVars, detVars, cmdVars, poolVars, prereqVars, followVars, listVars>>
outsideList == <<nukeVars, termVars, monVars, parseVars, fileVars, durVars, detVars, cmdVars, poolVars, prereqVars, followVars, deployVars>>

\* ------------------------------------------------------------------ helpers
RECURSIVE SetToSeq(_)
SetToSeq(S) ==
    IF S = {} THEN <<>>
    ELSE LET m == CHOOSE x \in S : \A y \in S : x <= y
         IN <<m>> \o SetToSeq(S \ {m})

Range(s) == {s[i] : i \in 1..Len(s)}

\* sequences over S without repetition
Perms(S) == {s \in UNION {[1..n -> S] : n \in 0..Cardinality(S)} :
                \A i, j \in 1..Len(s) : i # j => s[i] # s[j]}

\* Python's `"ERROR" in status`: a status string is the list of its fragments.
HasERROR(status) == \E i \in 1..Len(status) : status[i] = "ERROR: "

\* ------------------------------------------------------------ the cloud API
\* What ec2.describe_instances can answer in one region, given the instance ids
\* `avail` that no other region holds: the spot instances found, or an exception.
DescribeResponses(avail) ==
    {[kind |-> "ok", code |-> NoValue, ids |-> S] : S \in SUBSET avail}
    \cup {[kind |-> "ClientError", code |-> c, ids |-> {}] :
              c \in {"UnauthorizedOperation", "RequestLimitExceeded"}}
    \cup {[kind |-> "EndpointConnectionError", code |-> "EndpointConnectionError",
           ids |-> {}]}

\* instance-state names a TerminatingInstances entry can carry
StateNames == {"shutting-down", "terminated"}

\* exceptions ec2.terminate_instances can raise
TerminateErrors == {"InvalidInstanceID.NotFound", "EndpointConnectionError"}

\* What ec2.terminate_instances can answer for the requested ids: a list of
\* TerminatingInstances covering all or part of them, with state names among
\* `names`, or an exception among `codes`.
TerminateResponsesWith(instance_ids, names, codes) ==
    {[kind |-> "ok", code |-> NoValue, terminating |-> t] :
        t \in UNION {[T -> names] : T \in SUBSET Range(instance_ids)}}
    \cup {[kind |-> "error", code |-> c, terminating |-> <<>>] : c \in codes}

TerminateResponses(instance_ids) ==
    TerminateResponsesWith(instance_ids, StateNames, TerminateErrors)

\* the answers within a nuke run, whose instances were scanned as live a moment
\* before: a terminated instance is reported as shutting down
NukeTerminateResponses(instance_ids) ==
    TerminateResponsesWith(instance_ids, {"shutting-down"}, {"InvalidInstanceID.NotFound"})

NoResponse == [kind |-> NoValue, code |-> NoValue, terminating |-> <<>>]

\* ------------------------------------------------- the per-region functions
\* a scan that lets every ClientError leave the function
find_spot_instances_in_region_Reraise(region, resp) ==
    IF resp.kind = "ok"
    THEN LET ids == SetToSeq(resp.ids)
         IN [raised |-> FALSE,
             value  |-> [k \in 1..Len(ids) |-> [id |-> ids[k], region |-> region]],
             exc    |-> NoValue]
    ELSE [raised |-> TRUE, value |-> <<>>, exc |-> resp.code]

\* find_spot_instances_in_region(region) on the API answer `resp`:
\* the value returned, or the exception that leaves the function.
find_spot_instances_in_region(region, resp) ==
    IF resp.kind = "ok"
    THEN LET ids == SetToSeq(resp.ids)
         IN [raised |-> FALSE,
             value  |-> [k \in 1..Len(ids) |-> [id |-> ids[k], region |-> region]],
             exc    |-> NoValue]
    ELSE IF resp.kind = "ClientError" /\ resp.code = "UnauthorizedOperation"
    THEN [raised |-> FALSE, value |-> <<>>, exc |-> NoValue]
    ELSE [raised |-> TRUE, value |-> <<>>, exc |-> resp.code]

\* a terminator that reports only the first id when the call fails
terminate_instances_in_region_FirstOnly(region, instance_ids, resp) ==
    IF instance_ids = <<>>
    THEN [results |-> <<>>, calls |-> 0]
    ELSE IF resp.kind = "ok"
    THEN [results |-> [i \in DOMAIN resp.terminating |-> <<resp.terminating[i]>>],
          calls   |-> 1]
    ELSE [results |-> [i \in {instance_ids[1]} |-> <<"ERROR: ", resp.code>>],
          calls   |-> 1]

\* a terminator without the early return for an empty request
terminate_instances_in_region_NoGuard(region, instance_ids, resp) ==
    IF resp.kind = "ok"
    THEN [results |-> [i \in DOMAIN resp.terminating |-> <<resp.terminating[i]>>],
          calls   |-> 1]
    ELSE [results |-> [i \in Range(instance_ids) |-> <<"ERROR: ", resp.code>>],
          calls   |-> 1]

\* terminate_instances_in_region(region, instance_ids) on the API answer `resp`:
\* the map returned and the number of cloud calls made.
terminate_instances_in_region(region, instance_ids, resp) ==
    IF instance_ids = <<>>
    THEN [results |-> <<>>, calls |-> 0]
    ELSE IF resp.kind = "ok"
    THEN [results |-> [i \in DOMAIN resp.terminating |-> <<resp.terminating[i]>>],
          calls   |-> 1]
    ELSE [results |-> [i \in Range(instance_ids) |-> <<"ERROR: ", resp.code>>],
          calls   |-> 1]

\* ------------------------------------------------------------------ cmd_nuke
\* a scan future that holds no outcome yet
NoAnswer == [kind |-> NoValue, code |-> NoValue, ids |-> {}]
NoScan == [raised |-> FALSE, value |-> <<>>, exc |-> NoValue]

Ops == {"describe_instances", "terminate_instances"}

\* what the user can type at a prompt
Typed == {"DESTROY ALL SPOTS", "YES", "yes", ""}

\* what state.load_instances() can return: instance records, each id once
\* (listed by ascending id)
StateLists == {[k \in 1..Len(s) |-> [id |-> s[k]]] : s \in {SetToSeq(S) : S \in SUBSET Ids}}

IdsOf(list) == {list[k].id : k \in 1..Len(list)}

Line(msg, region) == [msg |-> msg, region |-> region]

Running(fut) == Cardinality({r \in AWS_REGIONS : fut[r] = "running"})

\* nuke.py 114
FirstPhraseOk(typed) == typed = "DESTROY ALL SPOTS"

\* a prompt that accepts the phrase in any case
FinalPhraseOk_AnyCase(typed) == typed \in {"YES", "yes"}

\* nuke.py 187
FinalPhraseOk(typed) == typed = "YES"

NukeInit ==
    /\ pc = "start"
    /\ force \in BOOLEAN
    /\ confirmation = NoValue
    /\ final_confirm = NoValue
    /\ scan_fut = [r \in AWS_REGIONS |-> "none"]
    /\ scan_api = [r \in AWS_REGIONS |-> NoAnswer]
    /\ scan_res = [r \in AWS_REGIONS |-> NoScan]
    /\ all_instances = <<>>
    /\ region_errors = <<>>
    /\ console = <<>>
    /\ termination_groups = <<>>
    /\ term_fut = [r \in AWS_REGIONS |-> "none"]
    /\ term_res = [r \in AWS_REGIONS |-> <<>>]
    /\ terminated_count = 0
    /\ failed_count = 0
    /\ current_instances = <<>>
    /\ saved_instances = <<>>
    /\ loads = 0
    /\ saves = 0
    /\ cloud_calls = [c \in Ops \X AWS_REGIONS |-> 0]

\* nuke.py 102-103: check_aws_auth()
CheckAuth ==
    /\ pc = "start"
    /\ \E ok \in BOOLEAN : pc' = IF ok THEN "confirm" ELSE "done"
    /\ UNCHANGED outsideNuke
    /\ UNCHANGED <<force, confirmation, final_confirm, scan_fut, scan_api, scan_res,
                   all_instances, region_errors, console, termination_groups,
                   term_fut, term_res, terminated_count, failed_count,
                   current_instances, saved_instances, loads, saves, cloud_calls>>

\* a first prompt that reports the abort and goes on to the scan all the same
FirstConfirm_ScansAnyway ==
    /\ pc = "confirm"
    /\ IF force
       THEN /\ pc' = "submit_scan"
            /\ UNCHANGED <<confirmation, console>>
       ELSE \E typed \in Typed :
            /\ confirmation' = typed
            /\ pc' = "submit_scan"
            /\ IF ~FirstPhraseOk(typed)
               THEN console' = Append(console, Line("aborted", 0))
               ELSE UNCHANGED console
    /\ UNCHANGED outsideNuke
    /\ UNCHANGED <<force, final_confirm, scan_fut, scan_api, scan_res, all_instances,
                   region_errors, termination_groups, term_fut, term_res,
                   terminated_count, failed_count, current_instances,
                   saved_instances, loads, saves, cloud_calls>>

\* nuke.py 111-116: the first prompt
FirstConfirm ==
    /\ pc = "confirm"
    /\ IF force
       THEN /\ pc' = "submit_scan"
            /\ UNCHANGED <<confirmation, console>>
       ELSE \E typed \in Typed :
            /\ confirmation' = typed
            /\ IF ~FirstPhraseOk(typed)
               THEN /\ console' = Append(console, Line("aborted", 0))
                    /\ pc' = "done"
               ELSE /\ pc' = "submit_scan"
                    /\ UNCHANGED console
    /\ UNCHANGED outsideNuke
    /\ UNCHANGED <<force, final_confirm, scan_fut, scan_api, scan_res, all_instances,
                   region_errors, termination_groups, term_fut, term_res,
                   terminated_count, failed_count, current_instances,
                   saved_instances, loads, saves, cloud_calls>>

\* nuke.py 124-128: one scan task per region is submitted to the pool
SubmitScans ==
    /\ pc = "submit_scan"
    /\ scan_fut' = [r \in AWS_REGIONS |-> "queued"]
    /\ pc' = "scan"
    /\ UNCHANGED outsideNuke
    /\ UNCHANGED <<force, confirmation, final_confirm, scan_api, scan_res, all_instances,
                   region_errors, console, termination_groups, term_fut, term_res,
                   terminated_count, failed_count, current_instances,
                   saved_instances, loads, saves, cloud_calls>>

\* a pool worker takes the scan task of region r (at most max_workers run)
ScanStart(r) ==
    /\ scan_fut[r] = "queued"
    /\ Running(scan_fut) < max_workers
    /\ scan_fut' = [scan_fut EXCEPT ![r] = "running"]
    /\ UNCHANGED outsideNuke
    /\ UNCHANGED <<pc, force, confirmation, final_confirm, scan_api, scan_res, all_instances,
                   region_errors, console, termination_groups, term_fut, term_res,
                   terminated_count, failed_count, current_instances,
                   saved_instances, loads, saves, cloud_calls>>

\* ids already reported by the scan of another region (an id lives in one region)
SeenElsewhere(r) ==
    UNION {IdsOf(scan_res[q].value) : q \in AWS_REGIONS \ {r}}

\* nuke.py 39-75: the worker runs find_spot_instances_in_region(r) to its end
ScanFinish(r) ==
    /\ scan_fut[r] = "running"
    /\ \E resp \in DescribeResponses(Ids \ SeenElsewhere(r)) :
          /\ scan_api' = [scan_api EXCEPT ![r] = resp]
          /\ scan_res' = [scan_res EXCEPT ![r] = find_spot_instances_in_region(r, resp)]
    /\ cloud_calls' = [cloud_calls EXCEPT ![<<"describe_instances", r>>] = @ + 1]
    /\ scan_fut' = [scan_fut EXCEPT ![r] = "done"]
    /\ UNCHANGED outsideNuke
    /\ UNCHANGED <<pc, force, confirmation, final_confirm, all_instances,
                   region_errors, console, termination_groups, term_fut, term_res,
                   terminated_count, failed_count, current_instances,
                   saved_instances, loads, saves>>

\* a collector that keeps only the instances of the last scan
all_instances_after_Replace(instances, res) ==
    IF ~res.raised /\ res.value # <<>> THEN res.value ELSE instances

\* nuke.py 134-136: the instances of a scan that returned are added
all_instances_after(instances, res) ==
    IF ~res.raised /\ res.value # <<>> THEN instances \o res.value ELSE instances

\* a collector that swallows the exception of a scan
region_errors_after_Swallow(errors, r, res) == errors

\* nuke.py 142-143: the exception of a scan that raised is recorded
region_errors_after(errors, r, res) ==
    IF res.raised THEN Append(errors, <<r, res.exc>>) ELSE errors

\* nuke.py 131-144: the main thread takes the next completed scan future
ScanCollect(r) ==
    /\ pc = "scan"
    /\ scan_fut[r] = "done"
    /\ LET res == scan_res[r] IN
       /\ all_instances' = all_instances_after(all_instances, res)
       /\ region_errors' = region_errors_after(region_errors, r, res)
       /\ console' = Append(console,
              Line(IF res.raised THEN "scan_error"
                   ELSE IF res.value # <<>> THEN "scan_found" ELSE "scan_none", r))
    /\ scan_fut' = [scan_fut EXCEPT ![r] = "collected"]
    /\ UNCHANGED outsideNuke
    /\ UNCHANGED <<pc, force, confirmation, final_confirm, scan_api, scan_res,
                   termination_groups, term_fut, term_res, terminated_count,
                   failed_count, current_instances, saved_instances, loads, saves, cloud_calls>>

NothingFound_Never(instances) == FALSE

\* nuke.py 149: `if not all_instances`
NothingFound(instances) == instances = <<>>

\* nuke.py 146-183: after the scan loop; nothing found ends the run, otherwise
\* the instances are displayed
ScanDone ==
    /\ pc = "scan"
    /\ \A r \in AWS_REGIONS : scan_fut[r] = "collected"
    /\ LET c1 == IF region_errors # <<>>
                 THEN Append(console, Line("scan_failed_regions", 0))
                 ELSE console
       IN IF NothingFound(all_instances)
          THEN /\ console' = Append(c1, Line("none_found", 0))
               /\ pc' = "done"
          ELSE /\ console' = Append(c1, Line("display", 0))
               /\ pc' = "confirm2"
    /\ UNCHANGED outsideNuke
    /\ UNCHANGED <<force, confirmation, final_confirm, scan_fut, scan_api, scan_res,
                   all_instances, region_errors, termination_groups, term_fut,
                   term_res, terminated_count, failed_count, current_instances,
                   saved_instances, loads, saves, cloud_calls>>

\* nuke.py 193-199: instance ids grouped by region, in list order
GroupByRegion(instances) ==
    LET regions == {instances[k].region : k \in 1..Len(instances)}
    IN [r \in regions |->
           SelectSeq([k \in 1..Len(instances) |-> instances[k]],
                     LAMBDA inst : inst.region = r)]

\* a grouping that puts every id into the group of the first instance's region
termination_groups_of_OneGroup(instances) ==
    IF instances = <<>> THEN <<>>
    ELSE [r \in {instances[1].region} |-> [k \in 1..Len(instances) |-> instances[k].id]]

\* nuke.py 194-199: the ids of each region's instances
termination_groups_of(instances) ==
    LET g == GroupByRegion(instances)
    IN [r \in DOMAIN g |-> [k \in 1..Len(g[r]) |-> g[r][k].id]]

\* nuke.py 185-209: the second prompt, then one termination task per group
SecondConfirm ==
    /\ pc = "confirm2"
    /\ \E typed \in (IF force THEN {NoValue} ELSE Typed) :
          /\ final_confirm' = typed
          /\ IF ~force /\ ~FinalPhraseOk(typed)
             THEN /\ console' = Append(console, Line("aborted", 0))
                  /\ pc' = "done"
                  /\ UNCHANGED <<termination_groups, term_fut>>
             ELSE /\ termination_groups' = termination_groups_of(all_instances)
                  /\ term_fut' = [r \in AWS_REGIONS |->
                         IF r \in DOMAIN termination_groups_of(all_instances)
                         THEN "queued" ELSE "none"]
                  /\ pc' = "terminate"
                  /\ UNCHANGED console
    /\ UNCHANGED outsideNuke
    /\ UNCHANGED <<force, confirmation, scan_fut, scan_api, scan_res, all_instances,
                   region_errors, term_res, terminated_count, failed_count,
                   current_instances, saved_instances, loads, saves, cloud_calls>>

\* a pool worker takes the termination task of region r
TermStart(r) ==
    /\ term_fut[r] = "queued"
    /\ Running(term_fut) < max_workers
    /\ term_fut' = [term_fut EXCEPT ![r] = "running"]
    /\ UNCHANGED outsideNuke
    /\ UNCHANGED <<pc, force, confirmation, final_confirm, scan_fut, scan_api, scan_res,
                   all_instances, region_errors, console, termination_groups,
                   term_res, terminated_count, failed_count, current_instances,
                   saved_instances, loads, saves, cloud_calls>>

\* nuke.py 78-97: the worker runs terminate_instances_in_region to its end
TermFinish(r) ==
    /\ term_fut[r] = "running"
    /\ \E resp \in NukeTerminateResponses(termination_groups[r]) :
          LET out == terminate_instances_in_region(r, termination_groups[r], resp)
          IN /\ term_res' = [term_res EXCEPT ![r] = out.results]
             /\ cloud_calls' = [cloud_calls EXCEPT
                                  ![<<"terminate_instances", r>>] = @ + out.calls]
    /\ term_fut' = [term_fut EXCEPT ![r] = "done"]
    /\ UNCHANGED outsideNuke
    /\ UNCHANGED <<pc, force, confirmation, final_confirm, scan_fut, scan_api, scan_res,
                   all_instances, region_errors, console, termination_groups,
                   terminated_count, failed_count, current_instances,
                   saved_instances, loads, saves>>

\* nuke.py 216-217
SuccessCount(results) == Cardinality({i \in DOMAIN results : ~HasERROR(results[i])})

\* nuke.py 212-234: the main thread takes the next completed termination future
\* (terminate_instances_in_region catches every Exception, so future.result()
\* returns a map and the except branch of lines 232-234 is never taken)
TermCollect(r) ==
    /\ pc = "terminate"
    /\ term_fut[r] = "done"
    /\ LET results == term_res[r]
           success == SuccessCount(results)
           failed  == Cardinality(DOMAIN results) - success
       IN /\ terminated_count' = terminated_count + success
          /\ failed_count' = failed_count + failed
          /\ console' = Append(console,
                 Line(IF failed > 0 THEN "term_partial" ELSE "term_ok", r))
    /\ term_fut' = [term_fut EXCEPT ![r] = "collected"]
    /\ UNCHANGED outsideNuke
    /\ UNCHANGED <<pc, force, confirmation, final_confirm, scan_fut, scan_api, scan_res,
                   all_instances, region_errors, termination_groups, term_res,
                   current_instances, saved_instances, loads, saves, cloud_calls>>

\* an interruption handled by writing back what was collected so far
TermInterrupt_SavesPartial ==
    /\ pc = "terminate"
    /\ pc' = "interrupted"
    /\ \E loaded \in StateLists :
          /\ current_instances' = loaded
          /\ loads' = loads + 1
          /\ saves' = saves + 1
          /\ saved_instances' = loaded
    /\ UNCHANGED outsideNuke
    /\ UNCHANGED <<force, confirmation, final_confirm, scan_fut, scan_api, scan_res,
                   all_instances, region_errors, console, termination_groups,
                   term_fut, term_res, terminated_count, failed_count, cloud_calls>>

\* nuke.py 204-234: KeyboardInterrupt reaches the main thread inside the with
\* block of the termination phase.  `except Exception` (232) does not catch it
\* and cmd_nuke has no other handler: the with block waits for the tasks still
\* queued or running (shutdown(wait=True)), then the exception leaves cmd_nuke
\* past the summary and the state update of lines 236-257.
TermInterrupt ==
    /\ pc = "terminate"
    /\ pc' = "interrupted"
    /\ UNCHANGED outsideNuke
    /\ UNCHANGED <<force, confirmation, final_confirm, scan_fut, scan_api, scan_res,
                   all_instances, region_errors, console, termination_groups,
                   term_fut, term_res, terminated_count, failed_count,
                   current_instances, saved_instances, loads, saves, cloud_calls>>

\* a reconciliation that takes the ids that are in a termination group
terminated_ids_of_InBatch(instances, groups, submitted) ==
    {instances[k].id : k \in {j \in 1..Len(instances) :
        instances[j].id \in UNION {Range(groups[r]) : r \in submitted \cap DOMAIN groups}}}

\* nuke.py 247-252: the ids of all_instances that are in no termination group of a
\* submitted region
terminated_ids_of(instances, groups, submitted) ==
    {instances[k].id : k \in {j \in 1..Len(instances) :
        instances[j].id \notin UNION {Range(groups[r]) : r \in submitted \cap DOMAIN groups}}}

\* nuke.py 253-255
remaining_instances_of(current, terminated_ids) ==
    SelectSeq(current, LAMBDA inst : inst.id \notin terminated_ids)

\* nuke.py 236-259: the summary, then the update of the local state
Summary ==
    /\ pc = "terminate"
    /\ \A r \in AWS_REGIONS : term_fut[r] \in {"none", "collected"}
    /\ IF terminated_count > 0
       THEN \E loaded \in StateLists :
            LET submitted == {r \in AWS_REGIONS : term_fut[r] # "none"}
                terminated_ids ==
                    terminated_ids_of(all_instances, termination_groups, submitted)
            IN /\ current_instances' = loaded
               /\ loads' = loads + 1
               /\ saves' = saves + 1
               /\ saved_instances' = remaining_instances_of(loaded, terminated_ids)
               /\ console' = console \o <<Line("summary", 0), Line("state_updated", 0)>>
       ELSE /\ console' = Append(console, Line("summary", 0))
            /\ UNCHANGED <<current_instances, saved_instances, loads, saves>>
    /\ pc' = "done"
    /\ UNCHANGED outsideNuke
    /\ UNCHANGED <<force, confirmation, final_confirm, scan_fut, scan_api, scan_res,
                   all_instances, region_errors, termination_groups, term_fut,
                   term_res, terminated_count, failed_count, cloud_calls>>

NukeNext ==
    \/ CheckAuth
    \/ FirstConfirm
    \/ SubmitScans
    \/ \E r \in AWS_REGIONS : ScanStart(r)
    \/ \E r \in AWS_REGIONS : ScanFinish(r)
    \/ \E r \in AWS_REGIONS : ScanCollect(r)
    \/ ScanDone
    \/ SecondConfirm
    \/ \E r \in AWS_REGIONS : TermStart(r)
    \/ \E r \in AWS_REGIONS : TermFinish(r)
    \/ \E r \in AWS_REGIONS : TermCollect(r)
    \/ TermInterrupt
    \/ Summary

\* ------------------------------------- terminate_instances_in_region, alone
TermInit ==
    /\ t_pc = "idle"
    /\ t_region = 0
    /\ t_ids = <<>>
    /\ t_resp = NoResponse
    /\ t_out = [results |-> <<>>, calls |-> 0]

\* a caller enters terminate_instances_in_region(region, instance_ids)
TEnter ==
    /\ t_pc = "idle"
    /\ \E region \in AWS_REGIONS, ids \in Perms(Ids) :
          /\ t_region' = region
          /\ t_ids' = ids
    /\ t_pc' = "entered"
    /\ UNCHANGED outsideTerm
    /\ UNCHANGED <<t_resp, t_out>>

\* nuke.py 80-81: nothing requested
TReturnEmpty ==
    /\ t_pc = "entered"
    /\ t_ids = <<>>
    /\ t_out' = terminate_instances_in_region(t_region, t_ids, t_resp)
    /\ t_pc' = "returned"
    /\ UNCHANGED outsideTerm
    /\ UNCHANGED <<t_region, t_ids, t_resp>>

\* nuke.py 84-87: the cloud answers the terminate request
TApi ==
    /\ t_pc = "entered"
    /\ t_ids # <<>>
    /\ t_resp' \in TerminateResponses(t_ids)
    /\ t_pc' = "answered"
    /\ UNCHANGED outsideTerm
    /\ UNCHANGED <<t_region, t_ids, t_out>>

\* nuke.py 89-97
TReturn ==
    /\ t_pc = "answered"
    /\ t_out' = terminate_instances_in_region(t_region, t_ids, t_resp)
    /\ t_pc' = "returned"
    /\ UNCHANGED outsideTerm
    /\ UNCHANGED <<t_region, t_ids, t_resp>>

TermNext ==
    \/ TEnter
    \/ TReturnEmpty
    \/ TApi
    \/ TReturn

\* ------------------------------ _monitor_deployment_progress_streaming
\* manager.py 652: timeout = 20 * 60
timeout == 1200
\* manager.py 844: time.sleep(3)
tick_sleep == 3
\* manager.py 256: run_sky_cmd(..., timeout=10), up to three polls in a tick
poll_timeout == 10

\* longest status / queue / log output, in lines
MaxStatusLines == 2
MaxQueueRows == 1
MaxLogLines == 1

\* manager.py 654: job_name = cluster_name
job_name == "job"

\* Python's `x in line` for a text without blanks: some word of the line holds it
ContainsSky(word) == word \in {"sky-a", "sky-b"}
ContainsINIT(word) == word = "INIT"
ContainsUP(word) == word = "UP"
InLine(Holds(_), line) == \E k \in 1..Len(line) : Holds(line[k])

\* a line of `sky status`, as line.split(): the cluster name, then its state
StatusLines == {<<"sky-a", "INIT">>, <<"sky-a", "UP">>, <<"sky-a", "STOPPED">>,
                <<"sky-b", "INIT">>, <<"sky-b", "UP">>, <<"other", "UP">>}

SeqsUpTo(S, n) == UNION {[1..k -> S] : k \in 0..n}

\* what run_sky_cmd returns: (success, stdout); stdout as its list of lines
\* (a failed command leaves no output, or one line of it)
Outcomes(lines, n) ==
    {[success |-> TRUE, stdout |-> out] : out \in SeqsUpTo(lines, n)}
    \cup {[success |-> FALSE, stdout |-> out] : out \in SeqsUpTo(lines, 1)}

\* a row of `sky queue`: the job it names, its number of fields, and the
\* fields 5 (duration) and 6 (status)
QueueRow(name, nparts, status) ==
    [name |-> name, nparts |-> nparts, duration |-> "5m1s", status |-> status]
\* a job that has been running for one minute
YoungRow == [QueueRow(job_name, 7, "RUNNING") EXCEPT !.duration = "1m0s"]
QueueRows ==
    {QueueRow(job_name, 7, st) :
        st \in {"RUNNING", "PENDING", "SUCCEEDED", "FAILED", "CANCELLED"}}
    \cup {QueueRow(job_name, 6, "SUCCEEDED"), QueueRow("other-job", 7, "FAILED")}
    \cup {YoungRow}

\* lines of `sky logs`, and their lower-case form
LogLines == {"Pulled image", "Deployment Complete", "node is ready"}
Lower(text) ==
    CASE text = "Pulled image" -> "pulled image"
      [] text = "Deployment Complete" -> "deployment complete"
      [] OTHER -> text

StatusOutcomes == Outcomes(StatusLines, MaxStatusLines)
QueueOutcomes == Outcomes(QueueRows, MaxQueueRows)
LogOutcomes == Outcomes(LogLines, MaxLogLines)

\* manager.py 773-781
HasCompletionKeyword(log_stdout) ==
    \E k \in 1..Len(log_stdout) :
        Lower(log_stdout[k]) \in {"deployment complete", "cluster is running",
                                  "node is ready"}

\* manager.py 668: the status lines the monitor acts on
IsClusterLine(line) ==
    InLine(ContainsSky, line) /\ (InLine(ContainsINIT, line) \/ InLine(ContainsUP, line))

\* manager.py 667-670, 805: the first such line with a first field (0: none)
FirstClusterLine(lines) ==
    LET hits == {k \in 1..Len(lines) : IsClusterLine(lines[k]) /\ Len(lines[k]) >= 1}
    IN IF hits = {} THEN 0 ELSE CHOOSE k \in hits : \A j \in hits : k <= j

\* a loop that still ticks at the ceiling
LoopCondition_Inclusive == now <= timeout /\ ~completion_detected

\* a loop that looks at the ceiling only
LoopCondition_IgnoreFlag == now < timeout

\* manager.py 658: the loop condition
LoopCondition == now < timeout /\ ~completion_detected

\* manager.py 864-867: the handlers around the whole monitor
OuterHandler(exc) ==
    IF exc = "KeyboardInterrupt" THEN "interrupted"
    ELSE IF exc = "Exception" THEN "monitor_error"
    ELSE "raised"

\* a monitor that looks at the rows of every job
JobRows_AnyJob(queue_stdout) ==
    SelectSeq(queue_stdout, LAMBDA row : row.nparts >= 7)

\* manager.py 700-702: the rows of the expected job that carry a status field
JobRows(queue_stdout) ==
    SelectSeq(queue_stdout, LAMBDA row : row.name = job_name /\ row.nparts >= 7)

TerminalIn(queue_stdout) ==
    \E k \in 1..Len(queue_stdout) : queue_stdout[k].status \in {"SUCCEEDED", "FAILED"}

MonInit ==
    /\ m_pc = "head"
    /\ now = 0
    /\ deployment_cluster = NoValue
    /\ completion_detected = FALSE
    /\ m_line = <<>>
    /\ m_queue_cluster = NoValue
    /\ m_rows = <<>>
    /\ m_outcome = NoValue
    /\ observed_terminal = FALSE
    /\ terminal_status = NoValue
    /\ m_poll_failed = FALSE
    /\ m_log_stdout = <<>>

\* a monitor that follows the cluster of the latest status line
adopted_cluster_Latest(current, potential_cluster) == potential_cluster

\* manager.py 672-673: the first cluster seen is kept
adopted_cluster(current, potential_cluster) ==
    IF current = NoValue THEN potential_cluster ELSE current

\* manager.py 658-691: a tick starts; the status poll and the line it acts on
MonPollStatus ==
    /\ m_pc = "head"
    /\ LoopCondition
    /\ \E st \in StatusOutcomes :
          LET k == IF st.success /\ st.stdout # <<>>
                   THEN FirstClusterLine(st.stdout) ELSE 0
              line == IF k = 0 THEN <<>> ELSE st.stdout[k]
              adopted == IF k # 0 THEN adopted_cluster(deployment_cluster, line[1])
                         ELSE deployment_cluster
              up == k # 0 /\ InLine(ContainsUP, line)
          IN /\ deployment_cluster' = adopted
             /\ m_line' = line
             /\ m_queue_cluster' = IF up THEN adopted ELSE NoValue
             /\ m_pc' = IF up THEN "queue" ELSE "render"
             /\ m_poll_failed' = ~st.success
    /\ m_rows' = <<>>
    /\ UNCHANGED outsideMon
    /\ UNCHANGED <<now, completion_detected, m_outcome, observed_terminal,
                   terminal_status, m_log_stdout>>

\* manager.py 692-702: the job queue of the adopted cluster is polled
MonPollQueue ==
    /\ m_pc = "queue"
    /\ \E q \in QueueOutcomes :
          /\ m_rows' = IF q.success /\ q.stdout # <<>> THEN JobRows(q.stdout) ELSE <<>>
          /\ observed_terminal' = (observed_terminal \/ TerminalIn(q.stdout))
          /\ m_poll_failed' = ~q.success
    /\ m_pc' = "rows"
    /\ UNCHANGED outsideMon
    /\ UNCHANGED <<now, deployment_cluster, completion_detected, m_line,
                   m_queue_cluster, m_outcome, terminal_status, m_log_stdout>>

\* manager.py 703-804: the next row of the expected job
MonRow ==
    /\ m_pc = "rows"
    /\ m_rows # <<>>
    /\ LET status == Head(m_rows).status IN
       IF status = "RUNNING"
       THEN \E lg \in LogOutcomes :
               /\ completion_detected' =
                      (completion_detected \/ HasCompletionKeyword(lg.stdout))
               /\ observed_terminal' =
                      (observed_terminal \/ HasCompletionKeyword(lg.stdout))
               /\ m_poll_failed' = ~lg.success
               /\ m_log_stdout' = lg.stdout
               /\ UNCHANGED terminal_status
       ELSE /\ completion_detected' =
                   (completion_detected \/ status \in {"SUCCEEDED", "FAILED"})
            /\ terminal_status' = IF status \in {"SUCCEEDED", "FAILED"}
                                  THEN status ELSE terminal_status
            /\ m_poll_failed' = FALSE
            /\ UNCHANGED <<observed_terminal, m_log_stdout>>
    /\ m_rows' = Tail(m_rows)
    /\ UNCHANGED outsideMon
    /\ UNCHANGED <<m_pc, now, deployment_cluster, m_line, m_queue_cluster, m_outcome>>

\* how long a tick can take: the sleep, plus up to three polls that time out
TickTimes == {tick_sleep, tick_sleep + 3 * poll_timeout}

\* manager.py 807-844: the panel is shown and the tick sleeps
MonRender ==
    /\ m_pc = "render" \/ (m_pc = "rows" /\ m_rows = <<>>)
    /\ \E d \in TickTimes : now' = now + d
    /\ m_pc' = "head"
    /\ m_line' = <<>>
    /\ m_queue_cluster' = NoValue
    /\ m_rows' = <<>>
    /\ UNCHANGED outsideMon
    /\ m_poll_failed' = FALSE
    /\ m_log_stdout' = <<>>
    /\ UNCHANGED <<deployment_cluster, completion_detected, m_outcome,
                   observed_terminal, terminal_status>>

\* manager.py 836-844: an exception inside the tick; the error panel is shown
\* and the tick sleeps, unless showing the panel raises as well
MonTickError ==
    /\ m_pc \in {"queue", "rows", "render"}
    /\ \E panel_ok \in BOOLEAN :
          IF panel_ok
          THEN /\ \E d \in TickTimes : now' = now + d
               /\ m_pc' = "head"
               /\ UNCHANGED m_outcome
          ELSE /\ m_outcome' = OuterHandler("Exception")
               /\ m_pc' = "returned"
               /\ UNCHANGED now
    /\ m_line' = <<>>
    /\ m_queue_cluster' = NoValue
    /\ m_rows' = <<>>
    /\ UNCHANGED outsideMon
    /\ m_poll_failed' = FALSE
    /\ m_log_stdout' = <<>>
    /\ UNCHANGED <<deployment_cluster, completion_detected, observed_terminal,
                   terminal_status>>

\* manager.py 846-862: the loop has ended; the final panel
FinalPanel == IF completion_detected THEN "complete" ELSE "timeout"

MonExit ==
    /\ m_pc = "head"
    /\ ~LoopCondition
    /\ \E panel_ok \in BOOLEAN :
          m_outcome' = IF panel_ok THEN FinalPanel ELSE OuterHandler("Exception")
    /\ m_pc' = "returned"
    /\ m_line' = <<>>
    /\ m_queue_cluster' = NoValue
    /\ m_rows' = <<>>
    /\ UNCHANGED outsideMon
    /\ m_poll_failed' = FALSE
    /\ m_log_stdout' = <<>>
    /\ UNCHANGED <<now, deployment_cluster, completion_detected,
                   observed_terminal, terminal_status>>

\* manager.py 864-865: the user interrupts the monitor
MonInterrupt ==
    /\ m_pc # "returned"
    /\ m_outcome' = OuterHandler("KeyboardInterrupt")
    /\ m_pc' = "returned"
    /\ m_line' = <<>>
    /\ m_queue_cluster' = NoValue
    /\ m_rows' = <<>>
    /\ UNCHANGED outsideMon
    /\ m_poll_failed' = FALSE
    /\ m_log_stdout' = <<>>
    /\ UNCHANGED <<now, deployment_cluster, completion_detected,
                   observed_terminal, terminal_status>>

MonNext ==
    \/ MonPollStatus
    \/ MonPollQueue
    \/ MonRow
    \/ MonRender
    \/ MonTickError
    \/ MonExit
    \/ MonInterrupt

\* ------------------------------------------------ _parse_deployment_log_line
\* A log line is the sequence of its tokens: the punctuation "(", ")" and ",",
\* a blank " ", the keys "rank=", "pid=" and "ip=", runs of digits, other text.
DigitRuns == {"8", "08", "12", "2816"}

\* Python's int() on a run of digits
int(run) ==
    CASE run = "8" -> 8
      [] run = "08" -> 8
      [] run = "12" -> 12
      [] run = "2816" -> 2816

At(line, k) == IF k \in 1..Len(line) THEN line[k] ELSE ""

\* index of the first token `tok` at or after `from` (0: none)
FirstAt(line, from, tok) ==
    LET hits == {k \in from..Len(line) : line[k] = tok}
    IN IF hits = {} THEN 0 ELSE CHOOSE k \in hits : \A j \in hits : k <= j

\* \s* : index of the first token at or after `from` that is not a blank
SkipBlanks(line, from) ==
    LET rest == {k \in from..Len(line) : line[k] # " "}
    IN IF rest = {} THEN Len(line) + 1 ELSE CHOOSE k \in rest : \A j \in rest : k <= j

Slice(line, a, b) == [k \in 1..(b - a + 1) |-> line[a + k - 1]]

\* a message kept as matched
strip_Keep(text) == text

\* str.strip()
strip(text) ==
    LET solid == {k \in 1..Len(text) : text[k] # " "}
    IN IF solid = {} THEN <<>>
       ELSE Slice(text, CHOOSE k \in solid : \A j \in solid : k <= j,
                        CHOOSE k \in solid : \A j \in solid : k >= j)

NoEvent == [node |-> <<>>, rank |-> -1, ip |-> <<>>, message |-> <<>>]

\* manager.py 481-493: re.match of
\*   \(([^,]+),\s*rank=(\d+),\s*pid=\d+,\s*ip=([^)]+)\)\s*(.*)
\* and the event built from its groups (the timestamp is left out)
parse_deployment_log_line(line) ==
    LET c1 == FirstAt(line, 2, ",")
        r == SkipBlanks(line, c1 + 1)
        q == SkipBlanks(line, r + 3)
        i == SkipBlanks(line, q + 3)
        cl == FirstAt(line, i + 1, ")")
        m == SkipBlanks(line, cl + 1)
    IN IF /\ At(line, 1) = "("
          /\ c1 > 2
          /\ At(line, r) = "rank=" /\ At(line, r + 1) \in DigitRuns /\ At(line, r + 2) = ","
          /\ At(line, q) = "pid=" /\ At(line, q + 1) \in DigitRuns /\ At(line, q + 2) = ","
          /\ At(line, i) = "ip="
          /\ cl > i + 1
       THEN [node |-> Slice(line, 2, c1 - 1),
             rank |-> int(line[r + 1]),
             ip |-> Slice(line, i + 1, cl - 1),
             message |-> strip(Slice(line, m, Len(line)))]
       ELSE NoEvent

\* the lines handed to the parser: lines of the deployment format, with and
\* without a blank after each comma, and each of them with one token missing
Blank(yes) == IF yes THEN <<" ">> ELSE <<>>
LogLine(node, rank, pid, ip, message, blanks) ==
    <<"(">> \o node \o <<",">> \o Blank(blanks) \o <<"rank=", rank, ",">>
        \o Blank(blanks) \o <<"pid=", pid, ",">> \o Blank(blanks)
        \o <<"ip=">> \o ip \o <<")", " ">> \o message
Without(line, k) == [j \in 1..(Len(line) - 1) |-> IF j < k THEN line[j] ELSE line[j + 1]]

NodeNames == {<<"worker8">>, <<"head", " ", "node">>}
Addresses == {<<"172.31.41.250">>, <<"10.0.0.1">>}
Messages == {<<>>, <<"message">>, <<"Starting", " ", "container", " ">>,
             <<"done", ",", " ", "rank=", "8">>}
FormatLines ==
    {LogLine(n, rk, "2816", ip, msg, bl) :
        n \in NodeNames, rk \in DigitRuns, ip \in Addresses, msg \in Messages,
        bl \in BOOLEAN}
ParseLines ==
    FormatLines \cup UNION {{Without(l, k) : k \in 1..Len(l)} : l \in FormatLines}

ParseIdle ==
    /\ p_pc = "idle"
    /\ p_line = <<>>
    /\ p_event = NoEvent

ParseInit ==
    /\ p_pc = "called"
    /\ p_line \in ParseLines
    /\ p_event = NoEvent

PReturn ==
    /\ p_pc = "called"
    /\ p_event' = parse_deployment_log_line(p_line)
    /\ p_pc' = "returned"
    /\ UNCHANGED p_line
    /\ UNCHANGED outsideParse

ParseNext ==
    \/ PReturn

\* ---------------------------------------------- _monitor_deployment_progress
\* longest deployment log file, in lines, and the most lines in it that are
\* not lines of worker8
MaxFileLines == 7
MaxOtherLines == 1

\* manager.py 623: the messages kept for a node
keep_messages == 5

\* the n-th line of the file carries a message of n words, so that every
\* message of the file is different
MessageOf(n) == [k \in 1..(2 * n - 1) |-> IF k % 2 = 1 THEN "x" ELSE " "]

\* the address worker8 reports in line n: it changes from line to line
AddressAt(n) == IF n % 2 = 1 THEN <<"172.31.41.250">> ELSE <<"10.0.0.1">>

\* what the deployment writes: a line of worker8, a line of worker9, a line
\* of worker9 that lacks its rank ("broken"), or a line of plain text; each
\* ends with a newline
FileKinds == {"worker8", "worker9", "other", "broken"}
FileLine(kind, n) ==
    CASE kind = "worker8" ->
             LogLine(<<"worker8">>, "8", "2816", AddressAt(n), MessageOf(n), TRUE)
                 \o <<" ">>
      [] kind = "worker9" ->
             LogLine(<<"worker9">>, "08", "2816", <<"10.0.0.1">>, MessageOf(n), FALSE)
                 \o <<" ">>
      [] kind = "broken" ->
             <<"(", "worker9", ",", "pid=", "2816", ",", "ip=", "10.0.0.1", ")", " ">>
                 \o MessageOf(n) \o <<" ">>
      [] OTHER -> <<"Pulled", " ", "image", " ">>

OtherLines(file) == Cardinality({k \in 1..Len(file) : At(file[k], 2) # "worker8"})

\* manager.py 600-602: f"{node}-{rank}"
node_id_of(node_info) == <<node_info.node, node_info.rank>>

\* a buffer that drops the newest message when it is full
recent_messages_after_DropNewest(recent_messages, message) ==
    IF Len(recent_messages) >= keep_messages THEN recent_messages
    ELSE Append(recent_messages, message)

\* manager.py 620-624: append, then pop(0) when more than 5 are held
recent_messages_after(recent_messages, message) ==
    LET appended == Append(recent_messages, message)
    IN IF Len(appended) > keep_messages THEN Tail(appended) ELSE appended

\* a table that holds the node of the last event only
nodes_after_Replace(table, node_info) ==
    LET node_id == node_id_of(node_info)
    IN [id \in {node_id} |->
           [node |-> node_info.node, rank |-> node_info.rank, ip |-> node_info.ip,
            recent_messages |->
                recent_messages_after(IF id \in DOMAIN table
                                      THEN table[id].recent_messages ELSE <<>>,
                                      node_info.message),
            timestamp |-> node_info.timestamp]]

\* an update that keeps the address the node had
nodes_after_KeepIp(table, node_info) ==
    LET node_id == node_id_of(node_info)
        known == node_id \in DOMAIN table
    IN [id \in DOMAIN table \cup {node_id} |->
           IF id # node_id THEN table[id]
           ELSE [node |-> IF known THEN table[id].node ELSE node_info.node,
                 rank |-> IF known THEN table[id].rank ELSE node_info.rank,
                 ip |-> IF known THEN table[id].ip ELSE node_info.ip,
                 recent_messages |->
                     recent_messages_after(IF known THEN table[id].recent_messages
                                           ELSE <<>>,
                                           node_info.message),
                 timestamp |-> node_info.timestamp]]

\* manager.py 604-624: the node table after an event
nodes_after(table, node_info) ==
    LET node_id == node_id_of(node_info)
        known == node_id \in DOMAIN table
    IN [id \in DOMAIN table \cup {node_id} |->
           IF id # node_id THEN table[id]
           ELSE [node |-> IF known THEN table[id].node ELSE node_info.node,
                 rank |-> IF known THEN table[id].rank ELSE node_info.rank,
                 ip |-> node_info.ip,
                 recent_messages |->
                     recent_messages_after(IF known THEN table[id].recent_messages
                                           ELSE <<>>,
                                           node_info.message),
                 timestamp |-> node_info.timestamp]]

FileIdle ==
    /\ f_pc = "head"
    /\ f_file = <<>>
    /\ last_position = 0
    /\ new_lines = <<>>
    /\ nodes = <<>>
    /\ received = <<>>

\* manager.py 575-585
FileInit == FileIdle

\* the deployment appends a line to the log file (the monitor sees the file
\* when it reads only, so the lines written during a tick are written here)
FWrite ==
    /\ f_pc = "head"
    /\ Len(f_file) < MaxFileLines
    /\ \E kind \in FileKinds :
          /\ kind # "worker8" => OtherLines(f_file) < MaxOtherLines
          /\ f_file' = Append(f_file, FileLine(kind, Len(f_file) + 1))
    /\ UNCHANGED <<f_pc, last_position, new_lines, nodes, received>>
    /\ UNCHANGED outsideFile

\* manager.py 587-593: a tick starts below the ceiling and reads the new lines
FRead ==
    /\ f_pc = "head"
    /\ new_lines' = SubSeq(f_file, last_position + 1, Len(f_file))
    /\ last_position' = Len(f_file)
    /\ f_pc' = "lines"
    /\ UNCHANGED <<f_file, nodes, received>>
    /\ UNCHANGED outsideFile

\* manager.py 491: "timestamp": time.time(), read when the line is parsed.
\* As logical time it is the number of the line in the file: a later line is
\* parsed later.
line_time == last_position - Len(new_lines) + 1

stamped(node_info, t) ==
    [node |-> node_info.node, rank |-> node_info.rank, ip |-> node_info.ip,
     message |-> node_info.message, timestamp |-> t]

is_event_Always(node_info) == TRUE

\* manager.py 599: `if node_info:`
is_event(node_info) == node_info # NoEvent

\* manager.py 595-629: the next line read is parsed and the table updated
FLine ==
    /\ f_pc = "lines"
    /\ new_lines # <<>>
    /\ LET node_info == parse_deployment_log_line(strip(Head(new_lines)))
           node_id == node_id_of(node_info)
       IN IF is_event(node_info)
          THEN /\ nodes' = nodes_after(nodes, stamped(node_info, line_time))
               /\ received' =
                      [id \in DOMAIN received \cup {node_id} |->
                          IF id # node_id THEN received[id]
                          ELSE Append(IF id \in DOMAIN received THEN received[id]
                                      ELSE <<>>, node_info.message)]
          ELSE UNCHANGED <<nodes, received>>
    /\ new_lines' = Tail(new_lines)
    /\ UNCHANGED <<f_pc, f_file, last_position>>
    /\ UNCHANGED outsideFile

\* manager.py 631: the lines are handled, the tick sleeps
FSleep ==
    /\ f_pc = "lines"
    /\ new_lines = <<>>
    /\ f_pc' = "head"
    /\ UNCHANGED <<f_file, last_position, new_lines, nodes, received>>
    /\ UNCHANGED outsideFile

\* manager.py 595-635: the next line read is an event, the table is updated,
\* then showing it (live.update, 625-629) raises: the handler goes on to the
\* next tick, and the lines of this tick not yet handled are not read again
FError ==
    /\ f_pc = "lines"
    /\ new_lines # <<>>
    /\ LET node_info == parse_deployment_log_line(strip(Head(new_lines)))
           node_id == node_id_of(node_info)
       IN /\ is_event(node_info)
          /\ nodes' = nodes_after(nodes, stamped(node_info, line_time))
          /\ received' =
                 [id \in DOMAIN received \cup {node_id} |->
                     IF id # node_id THEN received[id]
                     ELSE Append(IF id \in DOMAIN received THEN received[id]
                                 ELSE <<>>, node_info.message)]
    /\ new_lines' = <<>>
    /\ f_pc' = "head"
    /\ UNCHANGED <<f_file, last_position>>
    /\ UNCHANGED outsideFile

\* manager.py 587: the loop condition finds the 20 minutes used up (the clock
\* is not part of this model: any check may be the one), or manager.py
\* 637-639: the user interrupts
FExit ==
    /\ f_pc # "returned"
    /\ f_pc = "head" \/ f_pc = "lines"
    /\ f_pc' = "returned"
    /\ new_lines' = <<>>
    /\ UNCHANGED <<f_file, last_position, nodes, received>>
    /\ UNCHANGED outsideFile

FileNext ==
    \/ FWrite
    \/ FRead
    \/ FLine
    \/ FSleep
    \/ FError
    \/ FExit

\* ------------------------------------------------ _parse_duration_to_seconds
\* A duration is the sequence of its characters.
DigitChars == <<"0", "1", "2", "3", "4", "5", "6", "7", "8", "9">>
IsDigit(c) == \E k \in 1..10 : DigitChars[k] = c
DigitValue(c) == (CHOOSE k \in 1..10 : DigitChars[k] = c) - 1

\* str(n) of a natural number
RECURSIVE Decimal(_)
Decimal(n) ==
    IF n < 10 THEN <<DigitChars[n + 1]>>
    ELSE Decimal(n \div 10) \o <<DigitChars[(n % 10) + 1]>>

\* the value of a text of digits
RECURSIVE DecimalValue(_)
DecimalValue(text) ==
    IF text = <<>> THEN 0
    ELSE 10 * DecimalValue(SubSeq(text, 1, Len(text) - 1)) + DigitValue(text[Len(text)])

\* Python's int() on a text: [raised, value], raised for a ValueError
int_of_text(text) ==
    IF text # <<>> /\ \A k \in 1..Len(text) : IsDigit(text[k])
    THEN [raised |-> FALSE, value |-> DecimalValue(text)]
    ELSE [raised |-> TRUE, value |-> 0]

NoMatch == <<>>

\* manager.py 962-964: re.search(r"(\\d+)<unit>", duration).  In a raw string
\* the pattern text is ( \ \ d + ) <unit>: a backslash, then one or more
\* letters d, then the unit.  The value is group(1) of the leftmost match
\* (NoMatch: None).
search_unit(text, unit) ==
    LET starts == {i \in 1..Len(text) :
                      /\ text[i] = "\\"
                      /\ \E j \in (i + 1)..(Len(text) - 1) :
                            /\ \A k \in (i + 1)..j : text[k] = "d"
                            /\ text[j + 1] = unit}
    IN IF starts = {} THEN NoMatch
       ELSE LET i == CHOOSE a \in starts : \A b \in starts : a <= b
                j == CHOOSE a \in (i + 1)..(Len(text) - 1) :
                         /\ \A k \in (i + 1)..a : text[k] = "d"
                         /\ text[a + 1] = unit
                         /\ \A b \in (a + 1)..(Len(text) - 1) :
                               ~(/\ \A k \in (i + 1)..b : text[k] = "d"
                                 /\ text[b + 1] = unit)
            IN SubSeq(text, i, j)

\* manager.py 955-973
parse_duration_to_seconds(text) ==
    LET hours == search_unit(text, "h")
        minutes == search_unit(text, "m")
        seconds == search_unit(text, "s")
        h == IF hours # NoMatch THEN int_of_text(hours) ELSE [raised |-> FALSE, value |-> 0]
        m == IF minutes # NoMatch THEN int_of_text(minutes) ELSE [raised |-> FALSE, value |-> 0]
        sec == IF seconds # NoMatch THEN int_of_text(seconds) ELSE [raised |-> FALSE, value |-> 0]
    IN IF h.raised \/ m.raised \/ sec.raised
       THEN [raised |-> TRUE, value |-> 0]
       ELSE [raised |-> FALSE, value |-> h.value * 3600 + m.value * 60 + sec.value]

\* the text '<h>h<m>m<s>s'; a component below 0 is left out
Component(n, unit) == IF n < 0 THEN <<>> ELSE Decimal(n) \o <<unit>>
DurationText(h, m, sec) == Component(h, "h") \o Component(m, "m") \o Component(sec, "s")

HourValues == {-1, 0, 2, 12}
MinuteValues == {-1, 4, 5, 15}
SecondValues == {-1, 1, 30, 45, 59}

\* durations as `sky queue` prints them, '-' for none, and texts that hold
\* the characters of the pattern itself
Durations ==
    {DurationText(h, m, sec) : h \in HourValues, m \in MinuteValues, sec \in SecondValues}
    \cup {<<"-">>, <<"\\", "d", "h">>, <<"5", "\\", "d", "d", "m">>, <<"\\", "d", "s", "3", "s">>}

NoResult == [raised |-> FALSE, value |-> -1]

DurIdle ==
    /\ u_pc = "idle"
    /\ duration = <<>>
    /\ u_result = NoResult

DurInit ==
    /\ u_pc = "called"
    /\ duration \in Durations
    /\ u_result = NoResult

UReturn ==
    /\ u_pc = "called"
    /\ u_result' = parse_duration_to_seconds(duration)
    /\ u_pc' = "returned"
    /\ UNCHANGED duration
    /\ UNCHANGED outsideDur

DurNext ==
    \/ UReturn

\* --------------------------------------------- _detect_deployment_completion
\* rows of `sky queue` with the duration as its characters
DetectDurations == {DurationText(-1, 5, 1), DurationText(-1, 4, 59)}
DetectRows ==
    {[name |-> job_name, nparts |-> 7, duration |-> d, status |-> st] :
        d \in DetectDurations,
        st \in {"RUNNING", "PENDING", "SUCCEEDED", "FAILED", "CANCELLED"}}
    \cup {[name |-> job_name, nparts |-> 6, duration |-> DurationText(-1, 5, 1),
           status |-> "SUCCEEDED"],
          [name |-> "other-job", nparts |-> 7, duration |-> DurationText(-1, 5, 1),
           status |-> "FAILED"]}
DetectQueueOutcomes == Outcomes(DetectRows, MaxQueueRows)

NoOutcome == [success |-> FALSE, stdout |-> <<>>]
Result(is_complete, message, text, log, calls) ==
    [is_complete |-> is_complete, message |-> message, duration |-> text,
     log |-> log, log_calls |-> calls]
NoDetectResult == Result(FALSE, NoValue, <<>>, NoOutcome, 0)

\* manager.py 885: the status lines the detector acts on
IsUpLine(line) == InLine(ContainsSky, line) /\ InLine(ContainsUP, line)

\* manager.py 884-890: the first such line with a first field (0: none)
FirstUpLine(lines) ==
    LET hits == {k \in 1..Len(lines) : IsUpLine(lines[k]) /\ Len(lines[k]) >= 1}
    IN IF hits = {} THEN 0 ELSE CHOOSE k \in hits : \A j \in hits : k <= j

\* manager.py 927-938
HasCompletionIndicator(log_stdout) ==
    \E k \in 1..Len(log_stdout) :
        Lower(log_stdout[k]) \in {"deployment complete", "cluster is running",
                                  "sensor simulator started", "bacalhau compute started",
                                  "deployment status", "node is ready"}

\* manager.py 913-946: a RUNNING row; `lg` is what the log call returns if it
\* is made
running_row(text, lg) ==
    LET duration_seconds == parse_duration_to_seconds(text)
    IN IF ~duration_seconds.raised /\ duration_seconds.value > 300
       THEN IF lg.success /\ lg.stdout # <<>> /\ HasCompletionIndicator(lg.stdout)
            THEN Result(TRUE, "Deployment setup completed (running for", text, lg, 1)
            ELSE Result(FALSE, "Job still running", text, lg, 1)
       ELSE Result(FALSE, "Job still running", text, NoOutcome, 0)

\* manager.py 903-950: the rows of the queue in turn
RECURSIVE detect_rows(_, _)
detect_rows(rows, lg) ==
    IF rows = <<>> THEN Result(FALSE, "Job not found in queue", <<>>, NoOutcome, 0)
    ELSE LET row == Head(rows)
         IN IF row.name = job_name /\ row.nparts >= 7
               /\ row.status \in {"SUCCEEDED", "FAILED", "RUNNING", "PENDING"}
            THEN CASE row.status = "SUCCEEDED" ->
                          Result(TRUE, "Job completed successfully in", row.duration,
                                 NoOutcome, 0)
                   [] row.status = "FAILED" ->
                          Result(TRUE, "Job failed after", row.duration, NoOutcome, 0)
                   [] row.status = "RUNNING" -> running_row(row.duration, lg)
                   [] row.status = "PENDING" ->
                          Result(FALSE, "Job pending", row.duration, NoOutcome, 0)
            ELSE detect_rows(Tail(rows), lg)

DetIdle ==
    /\ d_pc = "idle"
    /\ d_status = NoOutcome
    /\ actual_cluster_name = NoValue
    /\ d_queue = NoOutcome
    /\ d_log = NoOutcome
    /\ d_log_calls = 0
    /\ d_result = NoDetectResult

DetInit ==
    /\ d_pc = "called"
    /\ d_status = NoOutcome
    /\ actual_cluster_name = NoValue
    /\ d_queue = NoOutcome
    /\ d_log = NoOutcome
    /\ d_log_calls = 0
    /\ d_result = NoDetectResult

\* manager.py 876-893: the status poll
DetStatus ==
    /\ d_pc = "called"
    /\ \E st \in StatusOutcomes :
          LET k == IF st.success /\ st.stdout # <<>> THEN FirstUpLine(st.stdout) ELSE 0
          IN /\ d_status' = st
             /\ IF ~st.success \/ st.stdout = <<>>
                THEN /\ d_result' = Result(FALSE, "Cannot get cluster status", <<>>,
                                           NoOutcome, 0)
                     /\ d_pc' = "returned"
                     /\ UNCHANGED actual_cluster_name
                ELSE IF k = 0
                THEN /\ d_result' = Result(FALSE, "Cluster not yet UP", <<>>,
                                           NoOutcome, 0)
                     /\ d_pc' = "returned"
                     /\ UNCHANGED actual_cluster_name
                ELSE /\ actual_cluster_name' = st.stdout[k][1]
                     /\ d_pc' = "queue"
                     /\ UNCHANGED d_result
    /\ UNCHANGED <<d_queue, d_log, d_log_calls>>
    /\ UNCHANGED outsideDet

\* manager.py 896-950: the queue poll, the rows, and the log poll of a row
\* that asks for it
DetQueue ==
    /\ d_pc = "queue"
    /\ \E q \in DetectQueueOutcomes, lg \in LogOutcomes :
          LET found == IF q.success THEN detect_rows(q.stdout, lg)
                       ELSE Result(FALSE, "Cannot check job queue", <<>>, NoOutcome, 0)
          IN /\ d_queue' = q
             /\ d_result' = found
             /\ d_log' = found.log
             /\ d_log_calls' = found.log_calls
    /\ d_pc' = "returned"
    /\ UNCHANGED <<d_status, actual_cluster_name>>
    /\ UNCHANGED outsideDet

DetNext ==
    \/ DetStatus
    \/ DetQueue

\* -------------------------------------------------------------- run_sky_cmd
\* A text is the sequence of its pieces; the empty text is <<>>.
\* manager.py 262: " ".join(args)
RECURSIVE join(_)
join(args) ==
    IF Len(args) <= 1 THEN args
    ELSE <<Head(args), " ">> \o join(Tail(args))

\* what the callers pass: the sky arguments and the timeout
SkyArgs == {<<"status">>, <<"queue", "sky-a">>, <<"logs", "sky-a", "--tail=3">>}
SkyTimeouts == {5, 10}

\* manager.py 109-180: what docker does when the container is looked for and,
\* if it does not run, started
DockerOutcomes == {"running", "started", "start_failed", "not_found", "exception"}

\* manager.py 128-180: the value of ensure_docker_container
ensure_docker_container(docker) == docker \in {"running", "started"}

\* what the sky process writes
ProcessTexts == {<<>>, <<"sky: cluster not found">>}

\* what subprocess.run does at manager.py 269-271: the process ends with an
\* exit code, or the call raises
ProcessOutcomes ==
    {[kind |-> "exit", returncode |-> rc, stdout |-> out, stderr |-> err] :
        rc \in {0, 1}, out \in ProcessTexts, err \in ProcessTexts}
    \cup {[kind |-> k, returncode |-> -1, stdout |-> <<>>, stderr |-> <<>>] :
            k \in {"TimeoutExpired", "FileNotFoundError", "PermissionError"}}
NoProcess == [kind |-> NoValue, returncode |-> -1, stdout |-> <<>>, stderr |-> <<>>]

\* str(e) of the exceptions subprocess.run raises
str_of(kind) ==
    IF kind = "FileNotFoundError"
    THEN <<"[Errno 2] No such file or directory: 'docker'">>
    ELSE <<"[Errno 13] Permission denied: 'docker'">>

Triple(success, stdout, stderr) ==
    [raised |-> FALSE, success |-> success, stdout |-> stdout, stderr |-> stderr]
NoTriple == [raised |-> FALSE, success |-> FALSE, stdout |-> <<>>, stderr |-> <<>>]

\* a timeout reported like any other failure
timeout_message_Generic(args, seconds) ==
    <<"Command 'sky ">> \o join(args) \o <<"' failed">>

\* manager.py 285
timeout_message(args, seconds) ==
    <<"Command 'sky ">> \o join(args) \o <<"' timed out after ">> \o Decimal(seconds)
        \o <<" seconds">>

\* manager.py 268-291: the triple for what subprocess.run did
exec_result(args, seconds, proc) ==
    IF proc.kind = "exit"
    THEN Triple(proc.returncode = 0, proc.stdout, proc.stderr)
    ELSE IF proc.kind = "TimeoutExpired"
    THEN Triple(FALSE, <<>>, timeout_message(args, seconds))
    ELSE Triple(FALSE, <<>>, str_of(proc.kind))

CmdIdle ==
    /\ c_pc = "idle"
    /\ c_args = <<>>
    /\ c_timeout = 0
    /\ c_docker = NoValue
    /\ c_proc = NoProcess
    /\ c_out = NoTriple

CmdInit ==
    /\ c_pc = "called"
    /\ c_args \in SkyArgs
    /\ c_timeout \in SkyTimeouts
    /\ c_docker = NoValue
    /\ c_proc = NoProcess
    /\ c_out = NoTriple

\* manager.py 258-259: the container is looked for
CEnsure ==
    /\ c_pc = "called"
    /\ \E docker \in DockerOutcomes :
          /\ c_docker' = docker
          /\ IF ensure_docker_container(docker)
             THEN c_pc' = "exec" /\ UNCHANGED c_out
             ELSE /\ c_out' = Triple(FALSE, <<>>, <<"Failed to start container">>)
                  /\ c_pc' = "returned"
    /\ UNCHANGED <<c_args, c_timeout, c_proc>>
    /\ UNCHANGED outsideCmd

\* manager.py 261-291: the sky command is run in the container
CExec ==
    /\ c_pc = "exec"
    /\ \E proc \in ProcessOutcomes :
          /\ c_proc' = proc
          /\ c_out' = exec_result(c_args, c_timeout, proc)
    /\ c_pc' = "returned"
    /\ UNCHANGED <<c_args, c_timeout, c_docker>>
    /\ UNCHANGED outsideCmd

CmdNext ==
    \/ CEnsure
    \/ CExec

\* ------------------------- the pool of region tasks of cmd_nuke, alone
\* nuke.py 124-144 and 204-234: `with ThreadPoolExecutor(max_workers=10) as
\* executor`, one executor.submit per region, then `for future in
\* as_completed(futures)`.  The list AWS_REGIONS of the source has 20 entries,
\* more than the pool has workers; NumTasks keeps that relation.
Tasks == 1..NumTasks

RunningTasks(fut) == Cardinality({t \in Tasks : fut[t] = "running"})

\* a worker thread of the pool is free to take the next queued task
WorkerFree_Unbounded(fut) == TRUE

WorkerFree(fut) == RunningTasks(fut) < max_workers

\* the work queue of the executor is first in, first out
NextQueued(fut) == CHOOSE t \in Tasks :
    /\ fut[t] = "queued"
    /\ \A u \in Tasks : fut[u] = "queued" => t <= u

PoolIdle ==
    /\ x_pc = "idle"
    /\ x_fut = [t \in Tasks |-> "none"]

PoolInit ==
    /\ x_pc = "submit"
    /\ x_fut = [t \in Tasks |-> "none"]

\* nuke.py 126-129 / 206-209: the dict comprehension submits every region
PoolSubmit ==
    /\ x_pc = "submit"
    /\ x_fut' = [t \in Tasks |-> "queued"]
    /\ x_pc' = "collect"
    /\ UNCHANGED outsidePool

\* a free worker takes the oldest queued task
PoolStart ==
    /\ x_pc = "collect"
    /\ \E t \in Tasks : x_fut[t] = "queued"
    /\ WorkerFree(x_fut)
    /\ x_fut' = [x_fut EXCEPT ![NextQueued(x_fut)] = "running"]
    /\ UNCHANGED x_pc
    /\ UNCHANGED outsidePool

\* the region task returns in its worker thread
PoolFinish(t) ==
    /\ x_pc = "collect"
    /\ x_fut[t] = "running"
    /\ x_fut' = [x_fut EXCEPT ![t] = "done"]
    /\ UNCHANGED x_pc
    /\ UNCHANGED outsidePool

\* nuke.py 131 / 211: as_completed yields a finished future; the main thread
\* takes future.result()
PoolCollect(t) ==
    /\ x_pc = "collect"
    /\ x_fut[t] = "done"
    /\ x_fut' = [x_fut EXCEPT ![t] = "collected"]
    /\ UNCHANGED x_pc
    /\ UNCHANGED outsidePool

\* the for loop is exhausted and the with block closes the executor
PoolExit ==
    /\ x_pc = "collect"
    /\ \A t \in Tasks : x_fut[t] = "collected"
    /\ x_pc' = "closed"
    /\ UNCHANGED x_fut
    /\ UNCHANGED outsidePool

PoolNext ==
    \/ PoolSubmit
    \/ PoolStart
    \/ \E t \in Tasks : PoolFinish(t)
    \/ \E t \in Tasks : PoolCollect(t)
    \/ PoolExit

\* ------------------------------------------------ check_prerequisites, alone
\* manager.py 326-475.  Every external command is an input of the step that
\* runs it.
\* what run_sky_cmd("check", timeout=15) returns: (success, stdout, stderr),
\* the texts as lists of lines
CheckStdouts == {<<>>, <<"AWS: enabled">>, <<"AWS: disabled">>,
                 <<"GCP: disabled", "AWS: enabled">>}
CheckStderrs == {<<>>, <<"Command 'sky check' timed out after 15s">>,
                 <<"500 Server Error">>, <<"credentials expired">>}
CheckResults ==
    {[success |-> ok, stdout |-> out, stderr |-> err] :
        ok \in BOOLEAN, out \in CheckStdouts, err \in CheckStderrs}
NoCheck == [success |-> FALSE, stdout |-> <<"not run">>, stderr |-> <<"not run">>]

\* Python's `"AWS: enabled" in stdout`
HasAWSEnabled(text) ==
    \E k \in 1..Len(text) : text[k] \in {"AWS: enabled"}

\* Python's `"timed out" in stderr`
HasTimedOut(text) ==
    \E k \in 1..Len(text) : text[k] \in {"Command 'sky check' timed out after 15s"}

\* Python's `"500 Server Error" in stderr or "HTTPError" in stderr`
HasServerError(text) ==
    \E k \in 1..Len(text) : text[k] \in {"500 Server Error"}

\* manager.py 429 and 442: `success and stdout and "AWS: enabled" in stdout`
check_passed(res) == res.success /\ res.stdout # <<>> /\ HasAWSEnabled(res.stdout)

\* a refresh that goes round again when the check after the restart fails
after_second_check_Again(res) == IF check_passed(res) THEN "returned" ELSE "restart"

\* manager.py 442-450: where the second check leads
after_second_check(res) == IF check_passed(res) THEN "returned" ELSE "fail"

\* manager.py 453-462: the hint that follows "still not working"; it reads the
\* stderr of the first check
stderr_hint(stderr) ==
    IF HasTimedOut(stderr) THEN "check_timed_out"
    ELSE IF HasServerError(stderr) THEN "server_error"
    ELSE IF stderr # <<>> THEN "check_error"
    ELSE "no_hint"

PrereqIdle ==
    /\ q_pc = "idle"
    /\ q_first = NoCheck
    /\ q_second = NoCheck
    /\ q_restarts = 0
    /\ q_checks = 0
    /\ q_log = <<>>
    /\ q_return = FALSE

PrereqInit ==
    /\ q_pc = "docker"
    /\ q_first = NoCheck
    /\ q_second = NoCheck
    /\ q_restarts = 0
    /\ q_checks = 0
    /\ q_log = <<>>
    /\ q_return = FALSE

\* manager.py 331-340: docker --version and docker info
QDocker ==
    /\ q_pc = "docker"
    /\ \E docker \in {"ok", "CalledProcessError", "FileNotFoundError"} :
          IF docker = "ok"
          THEN /\ q_pc' = "image"
               /\ q_log' = Append(q_log, "docker_available")
          ELSE /\ q_pc' = "returned"
               /\ q_log' = Append(q_log, IF docker = "CalledProcessError"
                                         THEN "docker_check_failed"
                                         ELSE "docker_not_found")
    /\ q_return' = FALSE
    /\ UNCHANGED <<q_first, q_second, q_restarts, q_checks>>
    /\ UNCHANGED outsidePrereq

\* manager.py 343-361: docker image inspect, docker pull when it is missing
QImage ==
    /\ q_pc = "image"
    /\ \E image \in {"present", "pulled", "pull_failed", "raised"} :
          IF image \in {"present", "pulled"}
          THEN /\ q_pc' = "version"
               /\ UNCHANGED q_log
          ELSE /\ q_pc' = "returned"
               /\ q_log' = Append(q_log, IF image = "pull_failed"
                                         THEN "pull_failed" ELSE "image_check_failed")
    /\ UNCHANGED <<q_first, q_second, q_restarts, q_checks, q_return>>
    /\ UNCHANGED outsidePrereq

\* manager.py 364-371: run_sky_cmd("--version")
QVersion ==
    /\ q_pc = "version"
    /\ \E success \in BOOLEAN :
          IF success
          THEN /\ q_pc' = "aws"
               /\ q_log' = Append(q_log, "skypilot_available")
          ELSE /\ q_pc' = "returned"
               /\ q_log' = Append(q_log, "skypilot_not_available")
    /\ UNCHANGED <<q_first, q_second, q_restarts, q_checks, q_return>>
    /\ UNCHANGED outsidePrereq

\* manager.py 374-425 and 469-473: the credentials file or variable, then
\* `aws sts get-caller-identity`
QAws ==
    /\ q_pc = "aws"
    /\ \E aws \in {"no_credentials", "ok", "nonzero", "TimeoutExpired",
                   "FileNotFoundError"} :
          IF aws = "ok"
          THEN /\ q_pc' = "check"
               /\ UNCHANGED q_log
          ELSE /\ q_pc' = "returned"
               /\ q_log' = Append(q_log, aws)
    /\ UNCHANGED <<q_first, q_second, q_restarts, q_checks, q_return>>
    /\ UNCHANGED outsidePrereq

\* manager.py 428-437: the first `sky check`; when it passes the function
\* falls through to `return True` (475)
QCheck ==
    /\ q_pc = "check"
    /\ \E res \in CheckResults :
          /\ q_first' = res
          /\ IF check_passed(res)
             THEN /\ q_log' = Append(q_log, "aws_available")
                  /\ q_pc' = "returned"
                  /\ q_return' = TRUE
             ELSE /\ q_log' = Append(q_log, "not_in_container")
                  /\ q_pc' = "restart"
                  /\ UNCHANGED q_return
    /\ q_checks' = q_checks + 1
    /\ UNCHANGED <<q_second, q_restarts>>
    /\ UNCHANGED outsidePrereq

\* manager.py 439 and 182-201: restart_docker_container() stops and removes the
\* container and returns what ensure_docker_container returns
QRestart ==
    /\ q_pc = "restart"
    /\ \E started \in BOOLEAN : q_pc' = IF started THEN "check2" ELSE "fail"
    /\ q_restarts' = q_restarts + 1
    /\ UNCHANGED <<q_first, q_second, q_checks, q_log, q_return>>
    /\ UNCHANGED outsidePrereq

\* manager.py 441-446: `sky check` again after the restart
QCheck2 ==
    /\ q_pc = "check2"
    /\ \E res \in CheckResults :
          /\ q_second' = res
          /\ q_pc' = after_second_check(res)
          /\ IF check_passed(res)
             THEN /\ q_log' = Append(q_log, "aws_available_after_restart")
                  /\ q_return' = TRUE
             ELSE UNCHANGED <<q_log, q_return>>
    /\ q_checks' = q_checks + 1
    /\ UNCHANGED <<q_first, q_restarts>>
    /\ UNCHANGED outsidePrereq

\* manager.py 448-468: the error, the hint and `return False`
QFail ==
    /\ q_pc = "fail"
    /\ q_log' = q_log \o <<"still_not_working", stderr_hint(q_first.stderr)>>
    /\ q_return' = FALSE
    /\ q_pc' = "returned"
    /\ UNCHANGED <<q_first, q_second, q_restarts, q_checks>>
    /\ UNCHANGED outsidePrereq

PrereqNext ==
    \/ QDocker
    \/ QImage
    \/ QVersion
    \/ QAws
    \/ QCheck
    \/ QRestart
    \/ QCheck2
    \/ QFail

\* ------------------------------------------------- monitor_deployments, alone
\* manager.py 1434-1577.  The call of _monitor_deployment_progress_streaming is
\* one step here; its loop is the monitor of the section above.

\* manager.py 1561: time.sleep(5)
refresh_sleep == 5

\* how long one round of the refresh loop takes: the sleep, plus a status poll
\* that may run into its timeout
RefreshTimes == {refresh_sleep, refresh_sleep + poll_timeout}

\* the longest tick of the streaming monitor
LongestTick == tick_sleep + 3 * poll_timeout

\* the clock of the model stops here
ClockEnd == timeout + 2 * LongestTick

\* manager.py 1457-1471: the lines of `sky status` kept as cluster lines
ClusterLists == SeqsUpTo(StatusLines, MaxStatusLines)

\* manager.py 1548-1553: the name on the first line that holds "INIT"
first_init_cluster(lines) ==
    IF \E k \in 1..Len(lines) : InLine(ContainsINIT, lines[k])
    THEN lines[CHOOSE k \in 1..Len(lines) :
                  /\ InLine(ContainsINIT, lines[k])
                  /\ \A j \in 1..(k - 1) : ~InLine(ContainsINIT, lines[j])][1]
    ELSE NoValue

\* how _monitor_deployment_progress_streaming ends (manager.py 846-867) and
\* the least time it has then taken
StreamingOutcomes ==
    {[outcome |-> "completed", elapsed |-> tick_sleep],
     [outcome |-> "timeout", elapsed |-> timeout],
     [outcome |-> "interrupted", elapsed |-> 0],
     [outcome |-> "monitor_error", elapsed |-> 0]}

FollowIdle ==
    /\ e_pc = "idle"
    /\ e_follow = FALSE
    /\ clusters_found = <<>>
    /\ active_cluster = NoValue
    /\ e_elapsed = 0
    /\ e_outcome = NoValue

FollowInit ==
    /\ e_pc = "start"
    /\ e_follow \in BOOLEAN
    /\ clusters_found = <<>>
    /\ active_cluster = NoValue
    /\ e_elapsed = 0
    /\ e_outcome = NoValue

\* manager.py 1443-1475: the container, `sky status`, the cluster lines
EStatus ==
    /\ e_pc = "start"
    /\ \E container \in BOOLEAN, success \in BOOLEAN, found \in ClusterLists :
          IF ~container \/ ~success
          THEN /\ e_pc' = "returned"
               /\ e_outcome' = "failed"
               /\ UNCHANGED clusters_found
          ELSE /\ clusters_found' = found
               /\ IF found = <<>>
                  THEN e_pc' = "returned" /\ e_outcome' = "no_clusters"
                  ELSE e_pc' = "display" /\ UNCHANGED e_outcome
    /\ UNCHANGED <<e_follow, active_cluster, e_elapsed>>
    /\ UNCHANGED outsideFollow

\* manager.py 1478-1553: the clusters and the managed jobs are shown; without
\* follow the function returns, with it the first INIT cluster is looked for
EDisplay ==
    /\ e_pc = "display"
    /\ IF e_follow
       THEN /\ active_cluster' = first_init_cluster(clusters_found)
            /\ e_pc' = IF first_init_cluster(clusters_found) # NoValue
                       THEN "streaming" ELSE "refresh"
            /\ UNCHANGED e_outcome
       ELSE /\ e_pc' = "returned"
            /\ e_outcome' = "shown"
            /\ UNCHANGED active_cluster
    /\ UNCHANGED <<e_follow, clusters_found, e_elapsed>>
    /\ UNCHANGED outsideFollow

\* manager.py 1555-1559: the streaming monitor runs to its end
EStreaming ==
    /\ e_pc = "streaming"
    /\ \E end \in StreamingOutcomes :
          /\ e_outcome' = end.outcome
          /\ e_elapsed' = end.elapsed
    /\ e_pc' = "returned"
    /\ UNCHANGED <<e_follow, clusters_found, active_cluster>>
    /\ UNCHANGED outsideFollow

\* manager.py 1560-1570: `while True`: sleep, poll the status, print the time
ERefresh ==
    /\ e_pc = "refresh"
    /\ e_elapsed < ClockEnd
    /\ \E d \in RefreshTimes : e_elapsed' = e_elapsed + d
    /\ UNCHANGED <<e_pc, e_follow, clusters_found, active_cluster, e_outcome>>
    /\ UNCHANGED outsideFollow

\* manager.py 1574-1576: Ctrl+C in the refresh loop
EInterrupt ==
    /\ e_pc = "refresh"
    /\ e_pc' = "returned"
    /\ e_outcome' = "interrupted"
    /\ UNCHANGED <<e_follow, clusters_found, active_cluster, e_elapsed>>
    /\ UNCHANGED outsideFollow

FollowNext ==
    \/ EStatus
    \/ EDisplay
    \/ EStreaming
    \/ ERefresh
    \/ EInterrupt

\* ------------------------------------------- deploy_cluster in follow mode
\* manager.py 1055-1229 with follow = True and log_to_console = False.  The
\* main thread (y_) starts _monitor_deployment_progress_streaming in a daemon
\* thread (k_) and runs `sky launch` itself.  deployment_cluster,
\* completion_detected and start_time are locals of the monitor function: they
\* are k_cluster, k_completion and, as the time since start_time, k_elapsed.
\* A tick of the monitor is one step here.
DeployIdle ==
    /\ y_pc = "idle"
    /\ y_launches = 0
    /\ y_fallback = FALSE
    /\ y_success = NoValue
    /\ y_return = NoValue
    /\ k_pc = "none"
    /\ k_cluster = NoValue
    /\ k_completion = FALSE
    /\ k_elapsed = 0

DeployInit ==
    /\ y_pc = "start"
    /\ y_launches = 0
    /\ y_fallback = FALSE
    /\ y_success = NoValue
    /\ y_return = NoValue
    /\ k_pc = "none"
    /\ k_cluster = NoValue
    /\ k_completion = FALSE
    /\ k_elapsed = 0

\* manager.py 1059-1062, 1064-1100 and 1227-1229: the config file must exist;
\* an exception before the inner try (the name in the config, the mkdir of the
\* log directory) is caught by the outer handler
DStart ==
    /\ y_pc = "start"
    /\ \E begin \in {"ok", "config_not_found", "raised"} :
          IF begin = "ok"
          THEN y_pc' = "spawn" /\ UNCHANGED y_return
          ELSE y_pc' = "returned" /\ y_return' = "False"
    /\ UNCHANGED <<y_launches, y_fallback, y_success, k_pc, k_cluster, k_completion,
                   k_elapsed>>
    /\ UNCHANGED outsideDeploy

\* manager.py 1104-1110: threading.Thread(...).start(); when it raises, the
\* handler of line 1129 takes over
DSpawn ==
    /\ y_pc = "spawn"
    /\ \E started \in BOOLEAN :
          IF started
          THEN /\ k_pc' = "head"
               /\ y_pc' = "sleep"
               /\ UNCHANGED y_fallback
          ELSE /\ y_pc' = "fallback"
               /\ y_fallback' = TRUE
               /\ UNCHANGED k_pc
    /\ UNCHANGED <<y_launches, y_success, y_return, k_cluster, k_completion, k_elapsed>>
    /\ UNCHANGED outsideDeploy

\* manager.py 1113-1123: time.sleep(2), then the launch command is issued
DIssue ==
    /\ y_pc = "sleep"
    /\ y_pc' = "launch"
    /\ y_launches' = y_launches + 1
    /\ UNCHANGED <<y_fallback, y_success, y_return, k_pc, k_cluster, k_completion,
                   k_elapsed>>
    /\ UNCHANGED outsideDeploy

\* the launch command reported on by a main thread that also ends the monitor
DLaunchReturn_EndsMonitor ==
    /\ y_pc = "launch"
    /\ \E success \in BOOLEAN : y_success' = IF success THEN "True" ELSE "False"
    /\ y_pc' = "log"
    /\ k_completion' = TRUE
    /\ UNCHANGED <<y_launches, y_fallback, y_return, k_pc, k_cluster, k_elapsed>>
    /\ UNCHANGED outsideDeploy

\* manager.py 1116-1123: run_sky_cmd("launch", ..., timeout=600) returns
DLaunchReturn ==
    /\ y_pc = "launch"
    /\ \E success \in BOOLEAN : y_success' = IF success THEN "True" ELSE "False"
    /\ y_pc' = "log"
    /\ UNCHANGED <<y_launches, y_fallback, y_return, k_pc, k_cluster, k_completion,
                   k_elapsed>>
    /\ UNCHANGED outsideDeploy

\* manager.py 1126-1130: the output is appended to the log file; when the
\* file cannot be opened or written the handler of line 1129 takes over
DLog ==
    /\ y_pc = "log"
    /\ \E written \in BOOLEAN :
          IF written
          THEN y_pc' = "finally" /\ UNCHANGED y_fallback
          ELSE y_pc' = "fallback" /\ y_fallback' = TRUE
    /\ UNCHANGED <<y_launches, y_success, y_return, k_pc, k_cluster, k_completion,
                   k_elapsed>>
    /\ UNCHANGED outsideDeploy

\* manager.py 1132-1141: "Deployment monitoring error", then the launch
\* command is issued (again, if the first one had returned)
DFallback ==
    /\ y_pc = "fallback"
    /\ y_pc' = "launch2"
    /\ y_launches' = y_launches + 1
    /\ UNCHANGED <<y_fallback, y_success, y_return, k_pc, k_cluster, k_completion,
                   k_elapsed>>
    /\ UNCHANGED outsideDeploy

\* manager.py 1134-1141: the launch of the handler returns
DFallbackReturn ==
    /\ y_pc = "launch2"
    /\ \E success \in BOOLEAN : y_success' = IF success THEN "True" ELSE "False"
    /\ y_pc' = "finally"
    /\ UNCHANGED <<y_launches, y_fallback, y_return, k_pc, k_cluster, k_completion,
                   k_elapsed>>
    /\ UNCHANGED outsideDeploy

\* manager.py 1142-1145: three more seconds for the monitor if it is alive
DFinally ==
    /\ y_pc = "finally"
    /\ y_pc' = "result"
    /\ UNCHANGED <<y_launches, y_fallback, y_success, y_return, k_pc, k_cluster,
                   k_completion, k_elapsed>>
    /\ UNCHANGED outsideDeploy

\* a deploy_cluster that reports success once the monitor saw completion
DResult_AsksMonitor ==
    /\ y_pc = "result"
    /\ y_return' = IF k_completion THEN "True" ELSE y_success
    /\ y_pc' = "returned"
    /\ UNCHANGED <<y_launches, y_fallback, y_success, k_pc, k_cluster, k_completion,
                   k_elapsed>>
    /\ UNCHANGED outsideDeploy

\* manager.py 1203-1225: the value returned
DResult ==
    /\ y_pc = "result"
    /\ y_return' = y_success
    /\ y_pc' = "returned"
    /\ UNCHANGED <<y_launches, y_fallback, y_success, k_pc, k_cluster, k_completion,
                   k_elapsed>>
    /\ UNCHANGED outsideDeploy

\* manager.py 658: the loop condition of the monitor
KHead ==
    /\ k_pc = "head"
    /\ k_pc' = IF k_elapsed < timeout /\ ~k_completion THEN "tick" ELSE "final"
    /\ UNCHANGED <<y_pc, y_launches, y_fallback, y_success, y_return, k_cluster,
                   k_completion, k_elapsed>>
    /\ UNCHANGED outsideDeploy

\* manager.py 659-844: one tick: a cluster may be adopted (670-676, kept once
\* set), the completion flag may be set for the adopted cluster (700-786),
\* then the tick sleeps
KTick ==
    /\ k_pc = "tick"
    /\ \E seen \in {NoValue, "sky-a", "sky-b"}, done \in BOOLEAN, d \in TickTimes :
          /\ k_cluster' = IF k_cluster = NoValue THEN seen ELSE k_cluster
          /\ k_completion' = (done /\ k_cluster' # NoValue)
          /\ k_elapsed' = k_elapsed + d
    /\ k_pc' = "head"
    /\ UNCHANGED <<y_pc, y_launches, y_fallback, y_success, y_return>>
    /\ UNCHANGED outsideDeploy

\* manager.py 846-867: the final panel, or one of the outer handlers; the
\* thread ends
KFinal ==
    /\ k_pc \in {"tick", "final"}
    /\ k_pc' = "ended"
    /\ UNCHANGED <<y_pc, y_launches, y_fallback, y_success, y_return, k_cluster,
                   k_completion, k_elapsed>>
    /\ UNCHANGED outsideDeploy

DeployNext ==
    \/ DStart
    \/ DSpawn
    \/ DIssue
    \/ DLaunchReturn
    \/ DLog
    \/ DFallback
    \/ DFallbackReturn
    \/ DFinally
    \/ DResult
    \/ KHead
    \/ KTick
    \/ KFinal

\* ------------------------------------------------------------------ cmd_list
\* An answer of ec2.describe_instances(InstanceIds=[id]): the call raises, or
\* gives reservations, each the list of the State.Name of its instances (EC2
\* reports a state for every instance it describes).
LiveStateNames == {"running", "terminated"}
LookupReservations ==
    {<<>>, <<<<>>>>, <<<<>>, <<"terminated">>>>}
    \cup {<<<<name>>>> : name \in LiveStateNames}
LookupAnswers ==
    {[raised |-> FALSE, Reservations |-> rs] : rs \in LookupReservations}
    \cup {[raised |-> TRUE, Reservations |-> <<>>]}

\* list.py 13-25: the state name of the first instance of the answer,
\* "not-found" when it holds none, "error" when the call raised
get_instance_state(answer) ==
    LET full == {k \in 1..Len(answer.Reservations) : answer.Reservations[k] # <<>>}
    IN IF answer.raised THEN "error"
       ELSE IF full = {} THEN "not-found"
       ELSE answer.Reservations[CHOOSE k \in full : \A j \in full : k <= j][1]

\* what the state file can hold: records of distinct ids, each with a region
ListFiles ==
    UNION {{[k \in 1..Len(ids) |-> [id |-> ids[k], region |-> rg[k]]] :
               rg \in [1..Len(ids) -> AWS_REGIONS]} : ids \in Perms(Ids)}

\* list.py 62: sorted(instances, key=region), a stable sort
SortedByRegion(records) ==
    LET at == SetToSeq({r * (Len(records) + 1) + k : r \in AWS_REGIONS, k \in 1..Len(records)}
                       \cap {records[k].region * (Len(records) + 1) + k : k \in 1..Len(records)})
    IN [j \in 1..Len(at) |-> records[at[j] % (Len(records) + 1)]]

ListIdle ==
    /\ l_pc = "idle"
    /\ l_rich = FALSE
    /\ l_file = <<>>
    /\ l_saves = 0
    /\ l_instances = <<>>
    /\ l_fut = <<>>
    /\ l_res = <<>>
    /\ l_next = 0
    /\ l_out = <<>>

\* cmd_list(state) is entered: the state file holds a list, Rich is there or not
ListInit ==
    /\ l_pc = "start"
    /\ l_rich \in BOOLEAN
    /\ l_file \in ListFiles
    /\ l_saves = 0
    /\ l_instances = <<>>
    /\ l_fut = <<>>
    /\ l_res = <<>>
    /\ l_next = 0
    /\ l_out = <<>>

\* list.py 30-31: check_aws_auth()
LAuth ==
    /\ l_pc = "start"
    /\ \E ok \in BOOLEAN : l_pc' = IF ok THEN "load" ELSE "returned"
    /\ UNCHANGED <<l_rich, l_file, l_saves, l_instances, l_fut, l_res, l_next, l_out>>
    /\ UNCHANGED outsideList

\* list.py 33-36: the persisted list is loaded; an empty list ends the command
LLoad ==
    /\ l_pc = "load"
    /\ l_instances' = [k \in 1..Len(l_file) |->
                          [id |-> l_file[k].id, region |-> l_file[k].region,
                           state |-> NoValue]]
    /\ l_pc' = IF l_file = <<>> THEN "returned" ELSE "submit"
    /\ UNCHANGED <<l_rich, l_file, l_saves, l_fut, l_res, l_next, l_out>>
    /\ UNCHANGED outsideList

\* list.py 43-48: one lookup task per instance is submitted to the pool
LSubmit ==
    /\ l_pc = "submit"
    /\ l_fut' = [k \in 1..Len(l_instances) |-> "queued"]
    /\ l_res' = [k \in 1..Len(l_instances) |-> NoValue]
    /\ l_next' = 1
    /\ l_pc' = "collect"
    /\ UNCHANGED <<l_rich, l_file, l_saves, l_instances, l_out>>
    /\ UNCHANGED outsideList

\* a pool worker takes the lookup of instance k
LStart(k) ==
    /\ k \in 1..Len(l_fut)
    /\ l_fut[k] = "queued"
    /\ Cardinality({j \in 1..Len(l_fut) : l_fut[j] = "running"}) < max_workers
    /\ l_fut' = [l_fut EXCEPT ![k] = "running"]
    /\ UNCHANGED <<l_pc, l_rich, l_file, l_saves, l_instances, l_res, l_next, l_out>>
    /\ UNCHANGED outsideList

\* list.py 13-25: the worker runs get_instance_state(id, region) to its end
LFinish(k) ==
    /\ k \in 1..Len(l_fut)
    /\ l_fut[k] = "running"
    /\ \E answer \in LookupAnswers :
          l_res' = [l_res EXCEPT ![k] = get_instance_state(answer)]
    /\ l_fut' = [l_fut EXCEPT ![k] = "done"]
    /\ UNCHANGED <<l_pc, l_rich, l_file, l_saves, l_instances, l_next, l_out>>
    /\ UNCHANGED outsideList

\* list.py 51-57: the main thread waits for the next future in submission
\* order and writes its result into the in-memory record
LCollect ==
    /\ l_pc = "collect"
    /\ l_next <= Len(l_instances)
    /\ l_fut[l_next] = "done"
    /\ l_instances' = [l_instances EXCEPT ![l_next].state = l_res[l_next]]
    /\ l_fut' = [l_fut EXCEPT ![l_next] = "collected"]
    /\ l_next' = l_next + 1
    /\ UNCHANGED <<l_pc, l_rich, l_file, l_saves, l_res, l_out>>
    /\ UNCHANGED outsideList

\* a row of the output: the state is None when the output does not show it
ListRow(inst, shown) ==
    [region |-> inst.region, id |-> inst.id,
     state |-> IF shown THEN inst.state ELSE NoValue]

\* list.py 59-87: the table, one row per instance sorted by region, or without
\* Rich one plain line per instance, with region, id and address only
LDisplay ==
    /\ l_pc = "collect"
    /\ l_next > Len(l_instances)
    /\ l_out' = IF l_rich
                THEN LET rows == SortedByRegion(l_instances)
                     IN [j \in 1..Len(rows) |-> ListRow(rows[j], TRUE)]
                ELSE [j \in 1..Len(l_instances) |-> ListRow(l_instances[j], FALSE)]
    /\ l_pc' = "returned"
    /\ UNCHANGED <<l_rich, l_file, l_saves, l_instances, l_fut, l_res, l_next>>
    /\ UNCHANGED outsideList

ListNext ==
    \/ LAuth
    \/ LLoad
    \/ LSubmit
    \/ \E k \in Ids : LStart(k)
    \/ \E k \in Ids : LFinish(k)
    \/ LCollect
    \/ LDisplay

\* ------------------------------------------------------------ specifications
Init == NukeInit /\ TermInit /\ MonInit /\ ParseIdle /\ FileIdle /\ DurIdle /\ DetIdle /\ CmdIdle /\ PoolIdle /\ PrereqIdle /\ FollowIdle /\ DeployIdle /\ ListIdle
Next == NukeNext
Spec == Init /\ [][Next]_vars

InitTerm == NukeInit /\ force = FALSE /\ TermInit /\ MonInit /\ ParseIdle /\ FileIdle /\ DurIdle /\ DetIdle /\ CmdIdle /\ PoolIdle /\ PrereqIdle /\ FollowIdle /\ DeployIdle /\ ListIdle
NextTerm == TermNext
SpecTerm == InitTerm /\ [][NextTerm]_vars

InitMon == NukeInit /\ force = FALSE /\ TermInit /\ MonInit /\ ParseIdle /\ FileIdle /\ DurIdle /\ DetIdle /\ CmdIdle /\ PoolIdle /\ PrereqIdle /\ FollowIdle /\ DeployIdle /\ ListIdle
SpecMon == InitMon /\ [][MonNext]_vars

InitParse == NukeInit /\ force = FALSE /\ TermInit /\ MonInit /\ ParseInit /\ FileIdle /\ DurIdle /\ DetIdle /\ CmdIdle /\ PoolIdle /\ PrereqIdle /\ FollowIdle /\ DeployIdle /\ ListIdle
SpecParse == InitParse /\ [][ParseNext]_vars

InitFile == NukeInit /\ force = FALSE /\ TermInit /\ MonInit /\ ParseIdle /\ FileInit /\ DurIdle /\ DetIdle /\ CmdIdle /\ PoolIdle /\ PrereqIdle /\ FollowIdle /\ DeployIdle /\ ListIdle
SpecFile == InitFile /\ [][FileNext]_vars

InitDur == NukeInit /\ force = FALSE /\ TermInit /\ MonInit /\ ParseIdle /\ FileIdle /\ DurInit /\ DetIdle /\ CmdIdle /\ PoolIdle /\ PrereqIdle /\ FollowIdle /\ DeployIdle /\ ListIdle
SpecDur == InitDur /\ [][DurNext]_vars

InitDet ==
    NukeInit /\ force = FALSE /\ TermInit /\ MonInit /\ ParseIdle /\ FileIdle /\ DurIdle
        /\ DetInit /\ CmdIdle /\ PoolIdle /\ PrereqIdle /\ FollowIdle /\ DeployIdle /\ ListIdle
SpecDet == InitDet /\ [][DetNext]_vars

InitCmd ==
    NukeInit /\ force = FALSE /\ TermInit /\ MonInit /\ ParseIdle /\ FileIdle /\ DurIdle
        /\ DetIdle /\ CmdInit /\ PoolIdle /\ PrereqIdle /\ FollowIdle /\ DeployIdle /\ ListIdle
SpecCmd == InitCmd /\ [][CmdNext]_vars

InitPool ==
    NukeInit /\ force = FALSE /\ TermInit /\ MonInit /\ ParseIdle /\ FileIdle /\ DurIdle
        /\ DetIdle /\ CmdIdle /\ PoolInit /\ PrereqIdle /\ FollowIdle /\ DeployIdle /\ ListIdle
SpecPool == InitPool /\ [][PoolNext]_vars

InitPrereq ==
    NukeInit /\ force = FALSE /\ TermInit /\ MonInit /\ ParseIdle /\ FileIdle /\ DurIdle
        /\ DetIdle /\ CmdIdle /\ PoolIdle /\ PrereqInit /\ FollowIdle /\ DeployIdle /\ ListIdle
SpecPrereq == InitPrereq /\ [][PrereqNext]_vars

InitFollow ==
    NukeInit /\ force = FALSE /\ TermInit /\ MonInit /\ ParseIdle /\ FileIdle /\ DurIdle
        /\ DetIdle /\ CmdIdle /\ PoolIdle /\ PrereqIdle /\ FollowInit /\ DeployIdle /\ ListIdle
SpecFollow == InitFollow /\ [][FollowNext]_vars

InitDeploy ==
    NukeInit /\ force = FALSE /\ TermInit /\ MonInit /\ ParseIdle /\ FileIdle /\ DurIdle
        /\ DetIdle /\ CmdIdle /\ PoolIdle /\ PrereqIdle /\ FollowIdle /\ DeployInit /\ ListIdle
SpecDeploy == InitDeploy /\ [][DeployNext]_vars

InitList ==
    NukeInit /\ force = FALSE /\ TermInit /\ MonInit /\ ParseIdle /\ FileIdle /\ DurIdle
        /\ DetIdle /\ CmdIdle /\ PoolIdle /\ PrereqIdle /\ FollowIdle /\ DeployIdle /\ ListInit
SpecList == InitList /\ [][ListNext]_vars

\* ================================================================ properties
\* ---- helpers of the properties
CountSeq(seq, Test(_)) == Cardinality({k \in 1..Len(seq) : Test(seq[k])})

ScanLines(r) ==
    CountSeq(console, LAMBDA l : l.region = r /\ l.msg \in {"scan_found", "scan_none"})
ErrorEntries(r) == CountSeq(region_errors, LAMBDA e : e[1] = r)
InstancesOf(r) == {k \in 1..Len(all_instances) : all_instances[k].region = r}

ScanComplete == \A r \in AWS_REGIONS : scan_fut[r] = "collected"
TerminateInvoked ==
    \E r \in AWS_REGIONS :
        term_fut[r] # "none" \/ cloud_calls[<<"terminate_instances", r>>] > 0
Declined ==
    /\ ~force
    /\ \/ confirmation \notin {NoValue, "DESTROY ALL SPOTS"}
       \/ final_confirm \notin {NoValue, "YES"}

\* C1: terminate_instances_in_region is invoked only if force is set or the user
\* typed exactly 'DESTROY ALL SPOTS' at the first prompt and exactly 'YES' at the
\* second; a declined prompt ends the run with no termination call and no write
\* to the persisted instance list.
C1_ConfirmationGate ==
    /\ TerminateInvoked =>
           force \/ (confirmation = "DESTROY ALL SPOTS" /\ final_confirm = "YES")
    /\ Declined => pc = "done" /\ ~TerminateInvoked /\ saves = 0

C1_Witness ==
    /\ ~force
    /\ confirmation = "DESTROY ALL SPOTS"
    /\ final_confirm = "yes"
    /\ all_instances # <<>>
    /\ pc = "done"

\* C2: in the parallel scan every region yields exactly one outcome, an instance
\* list (possibly empty) or one region_errors entry, whatever the number of
\* scans that raise and the order of completion; none is missing after the scan
\* and none is reported twice.
C2_OneOutcomePerRegion ==
    \A r \in AWS_REGIONS :
        /\ ScanLines(r) + ErrorEntries(r) = (IF scan_fut[r] = "collected" THEN 1 ELSE 0)
        /\ scan_fut[r] = "collected" =>
               ErrorEntries(r) = (IF scan_res[r].raised THEN 1 ELSE 0)

C2_Witness ==
    /\ ScanComplete
    /\ Len(region_errors) = 1
    /\ all_instances # <<>>
    /\ console[1].region = NumRegions

\* C3: a region whose scan is denied (UnauthorizedOperation) never produces a
\* region_errors entry and contributes no instance; a scan that fails in any
\* other way produces exactly one region_errors entry for its region.
Denied(r) == scan_api[r].kind = "ClientError" /\ scan_api[r].code = "UnauthorizedOperation"
OtherFailure(r) == scan_api[r].kind \notin {NoValue, "ok"} /\ ~Denied(r)

C3_DeniedIsEmptySuccess ==
    \A r \in AWS_REGIONS :
        /\ Denied(r) => ErrorEntries(r) = 0 /\ InstancesOf(r) = {}
        /\ Denied(r) /\ scan_fut[r] = "collected" => ScanLines(r) = 1
        /\ OtherFailure(r) /\ scan_fut[r] = "collected" => ErrorEntries(r) = 1

C3_Witness ==
    /\ ScanComplete
    /\ \E r \in AWS_REGIONS : Denied(r)
    /\ \E r \in AWS_REGIONS : OtherFailure(r)

\* C4: after the scan the aggregate instance list is exactly the union of the
\* lists returned by the regions whose scan succeeded, each instance once; a
\* region that raises or is denied takes nothing away from its siblings.
Returned(r) == IF scan_api[r].kind = "ok"
               THEN {[id |-> i, region |-> r] : i \in scan_api[r].ids} ELSE {}

C4_AggregateIsUnion ==
    ScanComplete =>
        /\ Range(all_instances) = UNION {Returned(r) : r \in AWS_REGIONS}
        /\ Len(all_instances) = Cardinality(Range(all_instances))

C4_Witness ==
    /\ ScanComplete
    /\ \E a, b \in AWS_REGIONS :
          /\ Cardinality(Returned(a)) = 2
          /\ Denied(b)
          /\ Len(all_instances) = 2
          /\ region_errors = <<>>

\* C5: when the terminate call fails as a whole, the returned map has exactly
\* the requested ids as keys and every value is an error string.
C5_BatchFailureMarksAll ==
    t_pc = "returned" /\ t_resp.kind = "error" =>
        /\ DOMAIN t_out.results = Range(t_ids)
        /\ \A i \in DOMAIN t_out.results : HasERROR(t_out.results[i])

C5_Witness ==
    /\ t_pc = "returned"
    /\ t_resp.kind = "error"
    /\ Len(t_ids) = 2

\* C6: for every non-empty request and every answer of the cloud API the key
\* set of the returned map equals the set of requested ids.
C6_EveryIdHasOutcome ==
    t_pc = "returned" /\ t_ids # <<>> => DOMAIN t_out.results = Range(t_ids)

\* C7: an empty request returns an empty map and makes no cloud call.
C7_EmptyRequestIsNoOp ==
    t_pc = "returned" /\ t_ids = <<>> =>
        /\ t_out.results = <<>>
        /\ t_out.calls = 0
        /\ t_resp = NoResponse

C7_Witness == t_pc = "returned" /\ t_ids = <<>>

\* C8: the list written back is the loaded list without the ids that were part
\* of a termination batch, whatever their outcome; the other ids are kept.
BatchIds == UNION {Range(termination_groups[r]) : r \in DOMAIN termination_groups}

C8_BatchIdsRemoved ==
    saves > 0 =>
        saved_instances = SelectSeq(current_instances, LAMBDA inst : inst.id \notin BatchIds)

\* C9: an entry leaves the persisted list only after its termination was
\* confirmed: every loaded id without a non-error outcome in this run is still
\* in the list that cmd_nuke saves.
ConfirmedTerminated(i) ==
    \E r \in AWS_REGIONS : i \in DOMAIN term_res[r] /\ ~HasERROR(term_res[r][i])

C9_RemovedOnlyIfConfirmed ==
    saves > 0 =>
        \A i \in IdsOf(current_instances) :
            ~ConfirmedTerminated(i) => i \in IdsOf(saved_instances)

C9_Witness ==
    /\ saves > 0
    /\ \E i \in IdsOf(current_instances) \cap BatchIds :
          ~ConfirmedTerminated(i) /\ i \in IdsOf(saved_instances)

\* C10: if no poll observed a terminal job status or a completion keyword, the
\* loop runs no tick once the elapsed time has reached the 20-minute ceiling,
\* its final panel is the timeout panel and not the completion panel, shown only
\* at or after the ceiling, and no exception leaves the monitor.
C10_TimeoutOutcome ==
    /\ m_pc \in {"queue", "rows", "render"} => now < timeout
    /\ m_outcome # "raised"
    /\ m_outcome = "timeout" => now >= timeout /\ ~completion_detected
    /\ ~observed_terminal /\ m_outcome \in {"complete", "timeout"} =>
           m_outcome = "timeout"

C10_Witness ==
    /\ m_pc = "returned"
    /\ m_outcome = "timeout"
    /\ ~observed_terminal
    /\ deployment_cluster # NoValue
    /\ now = timeout

\* C11: once the monitor has read a row of the expected job with status
\* SUCCEEDED or FAILED the flag is set and the loop starts no further tick: at
\* the next check of the loop condition it leaves.  While the flag is not set
\* and the ceiling is not reached the loop starts the next tick; a PENDING row
\* never sets the flag, a RUNNING row only with a completion keyword in the log.
TerminalStatuses == {"SUCCEEDED", "FAILED"}
AtRow == m_pc = "rows" /\ m_rows # <<>>

C11_TerminalStopsPolling ==
    [][/\ AtRow /\ m_pc' = "rows" /\ Head(m_rows).status \in TerminalStatuses =>
              completion_detected' /\ terminal_status' = Head(m_rows).status
       /\ terminal_status' # NoValue => completion_detected'
       /\ m_pc = "head" /\ completion_detected => m_pc' = "returned"
       /\ m_pc = "head" /\ ~completion_detected /\ now < timeout =>
              m_pc' \in {"queue", "render"} \/ m_outcome' = "interrupted"
       /\ AtRow /\ Head(m_rows).status = "PENDING" =>
              completion_detected' = completion_detected
       /\ AtRow /\ ~completion_detected /\ completion_detected' =>
              \/ Head(m_rows).status \in TerminalStatuses
              \/ Head(m_rows).status = "RUNNING" /\ observed_terminal'
      ]_vars

C11_Witness ==
    /\ m_pc = "returned"
    /\ m_outcome = "complete"
    /\ terminal_status = "SUCCEEDED"
    /\ now > tick_sleep
    /\ now < timeout

\* C12: a job read as FAILED never ends the monitor with the panel of a
\* successful completion.
C12_FailedIsNotSuccess ==
    terminal_status = "FAILED" => m_outcome # "complete"

\* C13: a failed status, queue or log poll, or an exception inside a tick that
\* is shown as a warning, does not end monitoring: the step leaves the monitor
\* inside the loop with no outcome, and leaves the completion flag and the
\* adopted cluster as they were.
C13_TickFailureNotFatal ==
    [][m_poll_failed' \/ (MonTickError /\ m_pc' = "head") =>
          /\ m_pc' # "returned"
          /\ m_outcome' = m_outcome
          /\ completion_detected' = completion_detected
          /\ deployment_cluster' = deployment_cluster
      ]_vars

\* C14: for every node the buffer recent_messages holds at most 5 messages:
\* the last min(n, 5) of the n messages appended for the node, in the order of
\* arrival; after 7 messages these are the messages 3 to 7.
Min(a, b) == IF a <= b THEN a ELSE b

C14_RecentMessagesRing ==
    /\ DOMAIN received = DOMAIN nodes
    /\ \A id \in DOMAIN nodes :
          LET held == nodes[id].recent_messages
              all == received[id]
              n == Len(all)
          IN /\ Len(held) <= 5
             /\ Len(held) = Min(n, 5)
             /\ held = SubSeq(all, n - Len(held) + 1, n)
             /\ n = 7 => held = <<all[3], all[4], all[5], all[6], all[7]>>

C14_Witness ==
    \E id \in DOMAIN nodes :
        /\ Len(received[id]) = 7
        /\ nodes[id].recent_messages = SubSeq(received[id], 3, 7)
        /\ Cardinality(Range(received[id])) = 7

\* C15: the set of node keys of the table never shrinks: every key is still
\* there after every later log line, tick and exception inside a tick.
C15_NodeKeysNeverShrink ==
    [][DOMAIN nodes \subseteq DOMAIN nodes']_vars

Worker8Lines(file) == Cardinality({k \in 1..Len(file) : At(file[k], 2) = "worker8"})

C15_Witness ==
    /\ Cardinality(DOMAIN nodes) = 2
    /\ f_pc = "head"
    /\ last_position = Len(f_file)
    /\ Len(received[<<(<<"worker8">>), 8>>]) < Worker8Lines(f_file)

\* C16: a line '(name, rank=<digits>, pid=<digits>, ip=<addr>) message' is
\* parsed into the event with that node name, the rank as an integer, that
\* address and the trimmed message; '(worker8, rank=8, pid=2816,
\* ip=172.31.41.250) message' gives worker8, 8, 172.31.41.250, 'message'.  A
\* line without a rank field gives no event.
Worker8Line ==
    <<"(", "worker8", ",", " ", "rank=", "8", ",", " ", "pid=", "2816", ",", " ",
      "ip=", "172.31.41.250", ")", " ", "message">>

C16_ParsesDeploymentLine ==
    p_pc = "returned" =>
        /\ \A n \in NodeNames, rk \in DigitRuns, ip \in Addresses, msg \in Messages,
              bl \in BOOLEAN :
              p_line = LogLine(n, rk, "2816", ip, msg, bl) =>
                  p_event = [node |-> n, rank |-> int(rk), ip |-> ip,
                             message |-> IF msg # <<>> /\ msg[Len(msg)] = " "
                                         THEN SubSeq(msg, 1, Len(msg) - 1) ELSE msg]
        /\ p_line = Worker8Line =>
              p_event = [node |-> <<"worker8">>, rank |-> 8,
                         ip |-> <<"172.31.41.250">>, message |-> <<"message">>]
        /\ (\A k \in 1..Len(p_line) : p_line[k] # "rank=") => p_event = NoEvent

C16_Witness ==
    /\ p_pc = "returned"
    /\ p_line = Worker8Line
    /\ p_event.rank = 8
    /\ p_event.message = <<"message">>

\* C17: a duration '<h>h<m>m<s>s', each component optional, is parsed into
\* 3600 h + 60 m + s seconds: '5m30s' gives 330, '2h15m' gives 8100 and '45s'
\* gives 45.
PartValue(n) == IF n < 0 THEN 0 ELSE n

C17_DurationInSeconds ==
    u_pc = "returned" =>
        \A h \in HourValues, m \in MinuteValues, sec \in SecondValues :
            duration = DurationText(h, m, sec) =>
                u_result = [raised |-> FALSE,
                            value |-> 3600 * PartValue(h) + 60 * PartValue(m)
                                          + PartValue(sec)]

\* C18: for a RUNNING job the detector looks at the log exactly when the
\* duration is above 300 seconds: with '5m1s' it fetches the log tail, and a
\* completion keyword in it gives (True, ...); with '4m59s' it makes no log
\* call and gives (False, 'Job still running ...').
DecidingRows(rows) ==
    SelectSeq(rows, LAMBDA row :
        /\ row.name = job_name /\ row.nparts >= 7
        /\ row.status \in {"SUCCEEDED", "FAILED", "RUNNING", "PENDING"})

C18_LogTailAfterFiveMinutes ==
    /\ d_pc = "returned" /\ d_queue.success /\ DecidingRows(d_queue.stdout) # <<>> =>
           LET row == Head(DecidingRows(d_queue.stdout))
           IN row.status = "RUNNING" =>
                 /\ row.duration = DurationText(-1, 5, 1) =>
                        /\ d_log_calls = 1
                        /\ d_log.success /\ HasCompletionIndicator(d_log.stdout) =>
                               d_result.is_complete
                 /\ row.duration = DurationText(-1, 4, 59) =>
                        /\ d_log_calls = 0
                        /\ ~d_result.is_complete
                        /\ d_result.message = "Job still running"

\* C19: run_sky_cmd raises for no failure of the external operation: a
\* container that cannot be started, an executable that is not found, a
\* non-zero exit and a timeout each give success = False with an error text
\* that is not empty.
OperationFailed ==
    \/ c_docker \in {"start_failed", "not_found", "exception"}
    \/ c_proc.kind \in {"TimeoutExpired", "FileNotFoundError", "PermissionError"}
    \/ c_proc.kind = "exit" /\ c_proc.returncode # 0

C19_FailureHasErrorDetail ==
    c_pc = "returned" /\ OperationFailed =>
        /\ ~c_out.raised
        /\ ~c_out.success
        /\ c_out.stderr # <<>>

\* C20: on a timeout run_sky_cmd returns success = False, an empty stdout and
\* an error text that holds 'timed out'; the text it returns when the
\* container cannot be started does not hold it.
HoldsTimedOut(text) == \E k \in 1..Len(text) : text[k] = "' timed out after "

C20_TimeoutIsMarked ==
    c_pc = "returned" =>
        /\ c_proc.kind = "TimeoutExpired" =>
               /\ ~c_out.success
               /\ c_out.stdout = <<>>
               /\ HoldsTimedOut(c_out.stderr)
        /\ c_docker \in {"start_failed", "not_found", "exception"} =>
               /\ ~c_out.success
               /\ ~HoldsTimedOut(c_out.stderr)

C20_Witness ==
    /\ c_pc = "returned"
    /\ c_proc.kind = "TimeoutExpired"
    /\ c_args = <<"queue", "sky-a">>
    /\ c_timeout = 10
    /\ HoldsTimedOut(c_out.stderr)

\* ---- C21: at most max_workers region tasks run at once; the pool closes only
\* after every submitted task has run and its result has been taken, and a
\* queued task never waits without a task running or a worker free; a result
\* is taken only from a finished task, whatever its place in the submission.
C21_PoolInv ==
    /\ RunningTasks(x_fut) <= max_workers
    /\ x_pc = "closed" => \A t \in Tasks : x_fut[t] = "collected"
    /\ \A t \in Tasks : x_fut[t] = "queued" =>
           WorkerFree(x_fut) \/ \E u \in Tasks : u < t /\ x_fut[u] = "running"

C21_BoundedPool ==
    /\ []C21_PoolInv
    /\ [][\A t \in Tasks :
            x_fut[t] # "collected" /\ x_fut'[t] = "collected" => x_fut[t] = "done"]_vars

\* all ten workers busy, the eleventh task queued, then a later task's result
\* taken while the first task is still running
C21_Witness ==
    /\ x_fut[1] = "running"
    /\ x_fut[2] = "collected"
    /\ x_fut[NumTasks] = "running"
    /\ RunningTasks(x_fut) = max_workers

\* ---- C22: in a non-forced run the first phrase is asked for only once the
\* scan results are on the console, and the second phrase only after the first.
Printed(msg) == \E k \in 1..Len(console) : console[k].msg = msg

C22_ConfirmAfterDisplay ==
    ~force =>
        /\ confirmation # NoValue => Printed("display")
        /\ final_confirm # NoValue => confirmation # NoValue

\* ---- C23: a scan that finds no instance ends the run with the success
\* message: no second prompt, no termination task and no termination call, the
\* persisted list neither loaded nor saved, whether or not regions failed.
ScanIsOver ==
    /\ pc \notin {"start", "confirm", "submit_scan", "scan"}
    /\ \A r \in AWS_REGIONS : scan_fut[r] = "collected"

C23_NothingFoundStops ==
    ScanIsOver /\ all_instances = <<>> =>
        /\ pc = "done"
        /\ Printed("none_found")
        /\ ~Printed("display")
        /\ final_confirm = NoValue
        /\ \A r \in AWS_REGIONS :
              term_fut[r] = "none" /\ cloud_calls[<<"terminate_instances", r>>] = 0
        /\ loads = 0
        /\ saves = 0

C23_Witness ==
    /\ ScanIsOver
    /\ all_instances = <<>>
    /\ region_errors # <<>>
    /\ Printed("scan_failed_regions")
    /\ Printed("none_found")

\* ---- C25: an interruption during the termination phase leaves the persisted
\* instance list as it was: it is not loaded, nothing is saved, at the
\* interruption and while the pool finishes the tasks it still holds.
C25_InterruptWritesNothing ==
    pc = "interrupted" => loads = 0 /\ saves = 0 /\ saved_instances = <<>>

\* interrupted with one batch collected and terminated, another still in flight
C25_Witness ==
    /\ pc = "interrupted"
    /\ terminated_count > 0
    /\ \E r \in AWS_REGIONS : term_fut[r] = "collected"
    /\ \E r \in AWS_REGIONS : term_fut[r] = "running"

\* ---- C26: the credential refresh is tried once: the container is restarted
\* at most once and `sky check` runs at most twice, the second time only after
\* the restart; once the check after the restart has failed there is no further
\* restart and no further check, and the function returns False.
SecondCheckFailed == q_second # NoCheck /\ ~check_passed(q_second)

C26_RefreshInv ==
    /\ q_restarts <= 1
    /\ q_checks <= 2
    /\ q_checks = 2 => q_restarts = 1
    /\ SecondCheckFailed => q_pc \in {"fail", "returned"}
    /\ SecondCheckFailed /\ q_pc = "returned" => ~q_return

C26_SingleShotRefresh ==
    /\ []C26_RefreshInv
    /\ [][SecondCheckFailed =>
            q_restarts' = q_restarts /\ q_checks' = q_checks /\ ~q_return']_vars

C26_Witness ==
    /\ q_pc = "returned"
    /\ q_restarts = 1
    /\ q_checks = 2
    /\ SecondCheckFailed
    /\ ~q_return

\* ---- C24: a continuous monitoring session has ended once the ceiling lies
\* behind it: a session started with follow that is still running has not gone
\* a whole tick past the 20 minutes, with or without a cluster in INIT.
C24_FollowIsBounded ==
    e_follow /\ e_pc # "returned" => e_elapsed < timeout + LongestTick

\* ---- C27: in follow mode the launch command of the try block is issued only
\* after the monitor thread was started, and a launch is issued without a
\* monitor only by the handler that follows a failed start; the main thread
\* never waits for the monitor to end, and no step of the main thread writes
\* the adopted cluster, the completion flag or the elapsed time of the monitor.
MainMoves ==
    <<y_pc, y_launches, y_fallback, y_success, y_return>>' #
        <<y_pc, y_launches, y_fallback, y_success, y_return>>

MonitorWritten ==
    <<k_cluster, k_completion, k_elapsed>>' # <<k_cluster, k_completion, k_elapsed>>

C27_MonitorFirst ==
    /\ y_pc = "launch" => k_pc # "none"
    /\ y_launches > 0 /\ k_pc = "none" => y_fallback

SecondsOf(text) ==
    CASE text = "5m1s" -> 301
      [] text = "1m0s" -> 60
      [] OTHER -> 0

C28_KeywordAfterFiveMinutes ==
    [][(/\ AtRow
        /\ Head(m_rows).status = "RUNNING"
        /\ ~completion_detected
        /\ completion_detected')
       => SecondsOf(Head(m_rows).duration) > 300]_vars

\* ---- C29: the job queue is polled for the adopted cluster only in a tick
\* whose status line of that same cluster shows UP.
C29_QueueOfSameCluster ==
    m_pc = "queue" =>
        /\ m_queue_cluster = deployment_cluster
        /\ m_line # <<>>
        /\ m_line[1] = m_queue_cluster
        /\ InLine(ContainsUP, m_line)

\* ---- C30: a matching line for a key of the table updates that node in
\* place: its ip and its time are those of the new line, the message is added
\* after the earlier ones (the oldest leaves a full buffer), node and rank stay,
\* and every other node stays as it was; a matching line for a new key makes a
\* node that holds that one message.
C30_event == parse_deployment_log_line(strip(Head(new_lines)))

C30_UpsertInPlace ==
    [][(f_pc = "lines" /\ f_pc' = "lines" /\ new_lines # <<>>
            /\ new_lines' = Tail(new_lines) /\ C30_event # NoEvent) =>
        LET id == <<C30_event.node, C30_event.rank>>
            after == nodes'[id]
        IN /\ id \in DOMAIN nodes'
           /\ \A other \in DOMAIN nodes : other # id =>
                  other \in DOMAIN nodes' /\ nodes'[other] = nodes[other]
           /\ after.ip = C30_event.ip
           /\ after.timestamp = line_time
           /\ IF id \in DOMAIN nodes
              THEN LET before == nodes[id]
                       held == before.recent_messages
                   IN /\ after.node = before.node
                      /\ after.rank = before.rank
                      /\ after.timestamp > before.timestamp
                      /\ after.recent_messages =
                             Append(IF Len(held) < keep_messages THEN held
                                    ELSE Tail(held), C30_event.message)
              ELSE /\ after.node = C30_event.node
                   /\ after.rank = C30_event.rank
                   /\ after.recent_messages = <<C30_event.message>>
       ]_vars

\* worker8 updated by its second line, which reports another address
C30_Witness ==
    /\ <<(<<"worker8">>), 8>> \in DOMAIN nodes
    /\ LET n == nodes[<<(<<"worker8">>), 8>>]
       IN /\ Len(n.recent_messages) = 2
          /\ n.ip = <<"10.0.0.1">>
          /\ n.timestamp = 2
          /\ n.recent_messages[1] # n.recent_messages[2]

\* ---- C31: a line that is not of the deployment format is no information:
\* handling it leaves the node table as it was (no node made, no ip, time or
\* message changed) and the tick goes on with the next line.
DeploymentLines ==
    {FileLine(kind, n) : kind \in {"worker8", "worker9"}, n \in 1..(MaxFileLines + 1)}

C31_MismatchChangesNothing ==
    [][(f_pc = "lines" /\ new_lines # <<>> /\ Head(new_lines) \notin DeploymentLines
            /\ new_lines' # new_lines /\ f_pc' = "lines")
       => nodes' = nodes /\ new_lines' = Tail(new_lines)]_vars

\* a line without rank between two lines of worker8 has been handled
C31_Witness ==
    /\ f_pc = "lines"
    /\ new_lines = <<>>
    /\ last_position = 3
    /\ f_file[1] \in DeploymentLines
    /\ f_file[2] = FileLine("broken", 2)
    /\ f_file[3] \in DeploymentLines
    /\ DOMAIN nodes = {<<(<<"worker8">>), 8>>}
    /\ Len(nodes[<<(<<"worker8">>), 8>>].recent_messages) = 2

\* ---- C32: the persisted list is read once, before the scan starts, and is
\* written once, after every termination task has completed.
TerminationOver ==
    /\ pc = "done"
    /\ \E r \in AWS_REGIONS : term_fut[r] # "none"

C32_ReadFirstWriteLast ==
    /\ loads <= 1
    /\ saves <= 1
    /\ saves = 1 => \A r \in AWS_REGIONS : term_fut[r] \in {"none", "collected"}
    /\ (\E r \in AWS_REGIONS : scan_fut[r] # "none") => loads = 1
    /\ TerminationOver => saves = 1

\* ---- C33: after the termination phase every submitted id has been counted
\* once, as terminated or as failed.
SubmittedIds ==
    UNION {{<<r, termination_groups[r][k]>> : k \in 1..Len(termination_groups[r])} :
              r \in DOMAIN termination_groups}

C33_CountsCoverSubmitted ==
    (pc = "done" /\ \E r \in AWS_REGIONS : term_fut[r] # "none") =>
        terminated_count + failed_count = Cardinality(SubmittedIds)

\* the termination tasks have been submitted (nuke.py 206-209)
TasksSubmitted == \E r \in AWS_REGIONS : term_fut[r] # "none"

\* the positions of the scanned instances that lie in region r
InRegion(r) == {k \in 1..Len(all_instances) : all_instances[k].region = r}

\* C34: the termination groups partition the scanned instances by region (every
\* instance's id is in the group of its own region, a group holds as many ids as
\* its region has instances and only their ids, no group is empty), and there is
\* a termination task for exactly the regions that have a group
C34_GroupsPartitionByRegion ==
    TasksSubmitted =>
        /\ DOMAIN termination_groups = {r \in AWS_REGIONS : InRegion(r) # {}}
        /\ \A r \in DOMAIN termination_groups :
              /\ Len(termination_groups[r]) = Cardinality(InRegion(r))
              /\ Range(termination_groups[r]) = {all_instances[k].id : k \in InRegion(r)}
        /\ \A r \in AWS_REGIONS : (term_fut[r] # "none") <=> (InRegion(r) # {})

\* instances of two regions were grouped and both tasks have been collected
C34_Witness ==
    /\ pc = "done"
    /\ Cardinality(DOMAIN termination_groups) = 2
    /\ \A r \in AWS_REGIONS : term_fut[r] = "collected"

\* instances of one region only: the other region has no group and no task
C34_EmptyRegionSeen ==
    /\ TasksSubmitted
    /\ \E r \in AWS_REGIONS : InRegion(r) = {} /\ term_fut[r] = "none"
    /\ \E r \in AWS_REGIONS : Cardinality(InRegion(r)) = 2

\* manager.py 775-779: the completion keywords, looked for in the lower-cased log
KeywordIn(text) ==
    \E k \in 1..Len(text) :
        text[k] \in {"Deployment Complete", "deployment complete",
                     "cluster is running", "node is ready"}

\* C35: completion_detected changes only from False to True, and only in a
\* step of a tick whose status poll gave a cluster line with UP and whose queue
\* poll gave a row of the expected job that says SUCCEEDED or FAILED, or says
\* RUNNING while the log output then fetched holds a completion keyword
C35_CompletionOnlyWhenObserved ==
    [][completion_detected' # completion_detected =>
          /\ ~completion_detected /\ completion_detected'
          /\ m_pc = "rows"
          /\ m_line # <<>> /\ IsClusterLine(m_line) /\ InLine(ContainsUP, m_line)
          /\ m_rows # <<>>
          /\ Head(m_rows).name = job_name
          /\ \/ Head(m_rows).status \in {"SUCCEEDED", "FAILED"}
             \/ Head(m_rows).status = "RUNNING" /\ KeywordIn(m_log_stdout')]_vars

\* the flag was set by a RUNNING row whose log says the node is ready
C35_Witness ==
    /\ completion_detected
    /\ m_pc = "rows"
    /\ m_line = <<"sky-b", "UP">>
    /\ m_log_stdout = <<"node is ready">>
    /\ terminal_status = NoValue

\* C36: the adopted cluster is None until the first tick whose status poll
\* yields a cluster line, is then the first field of that line, and keeps that
\* value in every later step whatever the later polls return
C36_AdoptedClusterIsSticky ==
    [][/\ deployment_cluster # NoValue => deployment_cluster' = deployment_cluster
       /\ (deployment_cluster = NoValue /\ deployment_cluster' # NoValue) =>
              /\ m_pc = "head"
              /\ m_line' # <<>> /\ IsClusterLine(m_line')
              /\ deployment_cluster' = m_line'[1]
       /\ m_line' # <<>> => deployment_cluster' # NoValue]_vars

\* a later poll lists another cluster first while sky-a stays adopted
C36_Witness ==
    /\ deployment_cluster = "sky-a"
    /\ m_line = <<"sky-b", "UP">>
    /\ m_pc = "queue"

C37_SuccessUnseen ==
    /\ y_pc = "returned"
    /\ y_return = "True"
    /\ k_cluster = NoValue
    /\ ~k_completion
    /\ k_pc \in {"head", "tick"}

\* no scan or termination task exists and no cloud API call has been made
NoCloudCall ==
    /\ \A c \in Ops \X AWS_REGIONS : cloud_calls[c] = 0
    /\ \A r \in AWS_REGIONS : scan_fut[r] = "none" /\ term_fut[r] = "none"

FirstPhraseRefused == ~force /\ confirmation \notin {NoValue, "DESTROY ALL SPOTS"}

\* C38: a non-forced run whose first phrase is not matched has returned without
\* any scan or termination call; a run whose authentication check fails returns
\* at once without any; and a run that has returned makes no call afterwards
C38_NoCallWhenRefused ==
    /\ [](FirstPhraseRefused => pc = "done" /\ NoCloudCall)
    /\ [][/\ (pc = "start" /\ pc' # "confirm") => (pc' = "done" /\ NoCloudCall')
          /\ pc = "done" =>
                 /\ pc' = "done"
                 /\ cloud_calls' = cloud_calls
                 /\ scan_fut' = scan_fut /\ term_fut' = term_fut]_vars

\* 'YES' typed at the first prompt: the run is over and nothing was called
C38_Witness ==
    /\ ~force
    /\ confirmation = "YES"
    /\ pc = "done"
    /\ NoCloudCall

\* the authentication check failed: the run is over before any prompt or print
C38_AuthFailed ==
    /\ pc = "done"
    /\ confirmation = NoValue
    /\ console = <<>>
    /\ NoCloudCall

\* the event of line k of the log file
EventAt(k) == parse_deployment_log_line(strip(f_file[k]))

\* the messages of node id among the first n lines of the file, in file order
MessagesOf(id, n) ==
    LET at == SelectSeq([k \in 1..n |-> k],
                        LAMBDA k : EventAt(k) # NoEvent /\ node_id_of(EventAt(k)) = id)
    IN [j \in 1..Len(at) |-> EventAt(at[j]).message]

\* the lines the monitor is past: read, and not waiting in new_lines
LinesPassed == last_position - Len(new_lines)

\* C39: while the file monitor runs, the messages it has taken in for each node
\* are exactly the messages of that node's lines among the lines it is past,
\* each once and in file order: no line is skipped and none is taken in twice
C39_EveryLineOnce ==
    f_pc \in {"head", "lines"} =>
        \A id \in DOMAIN received \cup {node_id_of(EventAt(k)) : k \in 1..LinesPassed} :
            (IF id \in DOMAIN received THEN received[id] ELSE <<>>)
                = MessagesOf(id, LinesPassed)

\* the rows of the output of cmd_list that name instance k of the loaded list
RowsOf(k) == {j \in 1..Len(l_out) : l_out[j].id = l_instances[k].id}

\* ---- C40: cmd_list never saves the persisted list, and once it has listed the
\* instances every instance of the list is shown in one row, with one state:
\* the result of its lookup, which is a live state name, 'not-found' or 'error'
C40_ReadOnlyOneStateEach ==
    /\ l_saves = 0
    /\ (l_pc = "returned" /\ l_instances # <<>>) =>
           /\ Len(l_out) = Len(l_instances)
           /\ \A k \in 1..Len(l_instances) :
                 /\ Cardinality(RowsOf(k)) = 1
                 /\ \A j \in RowsOf(k) :
                       /\ l_out[j].state = l_res[k]
                       /\ l_out[j].state \in LiveStateNames \cup {"not-found", "error"}

====
